---------------------------- MODULE Spec2Model ----------------------------
(***************************************************************************)
(* A model of the sample-generation core and of the buffer cache of pbrt:  *)
(* the PCG32 random number generator (RNG), the content-addressed          *)
(* BufferCache, the pixel samplers' StartSequence state machine, the       *)
(* generator-matrix routines, Distribution1D, the MaxMinDistSampler        *)
(* constructor, the process-wide buffer caches and the containers HashMap, *)
(* InlinedVector and Array2D.                                              *)
(*                                                                         *)
(* 64-bit words are kept at their width: a uint64_t is a tuple of eight    *)
(* bytes, least significant first, and every product and sum is reduced    *)
(* modulo 2^64 as the C++ arithmetic on uint64_t is.                       *)
(***************************************************************************)
EXTENDS Integers, Sequences, FiniteSets, Bags, TLC

VARIABLES
    rngA,       \* RNG a: [state, inc], both uint64_t
    rngB,       \* RNG b, the generator a is compared with
    origA,      \* a as its latest SetSequence (or the latest b = a) left it
    nA,         \* the LCG steps a was asked to move since then (draws + deltas)
    lastDraw,   \* <<nA before the draw, value>> of a's latest Uniform<uint32_t>()
    expect,     \* a - b when the pair was last set up, plus the steps since
    ops,        \* calls made on a and b since b was last assigned from a
    diff        \* how a - b ended, when it is the latest call; NoDifference otherwise

rngVars == <<rngA, rngB, origA, nA, lastDraw, expect, ops, diff>>

VARIABLES
    uPc,        \* the running Uniform(T b) call: "idle", "threshold", "loop", "returned"
    uT,         \* the integer type T of the call
    uB,         \* the bound b
    uThreshold, \* T threshold = (~b + 1u) % b
    uRaw,       \* T r = Uniform<T>(), the latest raw draw
    uResult     \* the value returned

uniformVars == <<uPc, uT, uB, uThreshold, uRaw, uResult>>

VARIABLES
    cache,               \* std::unordered_map: BufferId -> the pstd::vector<T> * stored
    heap,                \* the vectors alloc.new_object made: pointer -> contents
    mutexOwner,          \* the thread that holds BufferCache::mutex, or "free"
    tpc,                 \* where each thread is in LookupOrAdd
    buf,                 \* each thread's argument buf
    id,                  \* each thread's BufferId id
    nBufferCacheLookups, \* STAT_PERCENT denominator
    nBufferCacheHits,    \* STAT_PERCENT numerator
    redundantBufferBytes,\* STAT_MEMORY_COUNTER
    debugBuild,          \* whether DCHECK is compiled in
    aborted,             \* a DCHECK failed: the process is gone
    lookups,             \* LookupOrAdd calls made so far
    log,                 \* the calls that returned, in the order they returned
    iter,                \* each thread's iter: the pointer found, 0 for cache.end()
    released,            \* the bag of pointers alloc.delete_object was called on
    bytesUsed,           \* what the latest BytesUsed() returned, -1 before the first
    clears,              \* Clear calls made so far
    quiet                \* whether every Clear so far was made with no call in flight

lifecycleVars == <<released, bytesUsed, clears, quiet>>

cacheVars == <<cache, heap, mutexOwner, tpc, buf, id, nBufferCacheLookups,
               nBufferCacheHits, redundantBufferBytes, debugBuild, aborted,
               lookups, log, iter, lifecycleVars>>

VARIABLES
    lastPixel,   \* the pixel of the latest StartSequence, Uninitialized before the first
    sampleIndex, \* the sample index of the latest StartSequence
    cursor1D,    \* the cursor into the 1D samples of the sequence
    cursor2D,    \* the cursor into the 2D samples of the sequence
    calls,       \* TestSampler::calls
    starts,      \* the StartSequence calls made, in order, each with what it did
    array1DOffset, \* the cursor into the 1D sample arrays of the sequence
    array2DOffset  \* the cursor into the 2D sample arrays of the sequence

samplerVars == <<lastPixel, sampleIndex, cursor1D, cursor2D, calls, starts,
                 array1DOffset, array2DOffset>>

VARIABLES
    C,        \* uint32_t C[32], each column the set of its set bits
    Crev,     \* uint32_t Crev[32]
    filled,   \* whether the test has written C and Crev
    product,  \* the latest MultiplyGenerator calls on C and Crev and their index
    gcPc,     \* GrayCodeSample: "idle", "walk" or "done"
    gcN,      \* v->size(), the number of samples asked for
    gcI,      \* the loop index i
    gcV,      \* the accumulated product v
    gcOut     \* the samples written so far

generatorVars == <<C, Crev, filled, product, gcPc, gcN, gcI, gcV, gcOut>>

VARIABLES
    dist,     \* the Distribution1D constructed: [func, cdf, funcInt], or NoDistribution
    sample    \* the latest SampleDiscrete call: [u, index, pdf], or NoSample

distributionVars == <<dist, sample>>

VARIABLES
    maxmin    \* the MaxMinDistSampler under construction and where its constructor is

maxminVars == <<maxmin>>

VARIABLES
    jumpA,     \* RNG a of the pair, the one advanced
    jumpB,     \* RNG b of the pair, on the stream of a
    jumpOrig,  \* a as the pair was set up
    jumpTotal, \* the sum modulo 2^64 of the deltas a was advanced by since
    jumps,     \* Advance calls made on a since
    jumpDiff   \* how a - b ended, when it is the latest call

jumpVars == <<jumpA, jumpB, jumpOrig, jumpTotal, jumps, jumpDiff>>

VARIABLES
    bufferCaches, \* the six static BufferCache pointers: nullptr or the object made
    cacheBytes,   \* the buffers each cache object stores, as their byte counts
    meshBytes,    \* the STAT_MEMORY_COUNTER of each cache
    sceneFatal,   \* the CHECK of InitBufferCaches failed: the process is gone
    sceneCalls    \* the InitBufferCaches and FreeBufferCaches calls made, in order

sceneVars == <<bufferCaches, cacheBytes, meshBytes, sceneFatal, sceneCalls>>

VARIABLES
    table,      \* HashMap::table: the slots, each NoEntry or <<key, value>>
    nStored,    \* HashMap::nStored
    hmState,    \* "ready", or how the latest call failed to return
    hmOutside,  \* whether a call accessed table[offset] outside the table
    hmLast,     \* the latest call: its name, its key, what it returned
    hmGrows,    \* Grow calls made so far
    hmChanged,  \* Insert calls made so far that gave a key another value
    hmClears    \* Clear calls made so far

hashMapVars ==
    <<table, nStored, hmState, hmOutside, hmLast, hmGrows, hmChanged, hmClears>>

VARIABLES
    ivElems,   \* InlinedVector: the elements constructed at begin()[0 ..]
    ivPtr,     \* InlinedVector::ptr: nullptr, or the number of the block allocated
    ivNAlloc,  \* InlinedVector::nAlloc
    ivNStored, \* InlinedVector::nStored
    ivState,   \* "ready", or how the latest call failed to return
    ivLast     \* the latest call: its name, its argument, the elements before
               \* it and the indices it destroyed

inlinedVectorVars == <<ivElems, ivPtr, ivNAlloc, ivNStored, ivState, ivLast>>

VARIABLES
    arrays,    \* the Array2D objects a and b: NoArray, Destroyed, or
               \* [made, extent, allocator, values]
    a2Blocks,  \* what allocate_object returned: the block's allocator, its
               \* elements and the count it was deallocated with, -1 while it is not
    a2State,   \* "ready", or "crashed"
    a2Moves,   \* move assignments made so far
    a2Last     \* the latest call: its name, and for a = std::move(b) the case
               \* taken and the extent and the elements of b before it

array2DVars == <<arrays, a2Blocks, a2State, a2Moves, a2Last>>

vars ==
    <<rngVars, uniformVars, cacheVars, samplerVars, generatorVars,
      distributionVars, maxminVars, jumpVars, sceneVars, hashMapVars,
      inlinedVectorVars, array2DVars>>

\* what the actions of one component leave unchanged
notRNG ==
    <<uniformVars, cacheVars, samplerVars, generatorVars, distributionVars,
      maxminVars, jumpVars, sceneVars, hashMapVars, inlinedVectorVars,
      array2DVars>>

notUniform ==
    <<rngVars, cacheVars, samplerVars, generatorVars, distributionVars,
      maxminVars, jumpVars, sceneVars, hashMapVars, inlinedVectorVars,
      array2DVars>>

notCache ==
    <<rngVars, uniformVars, samplerVars, generatorVars, distributionVars,
      maxminVars, jumpVars, sceneVars, hashMapVars, inlinedVectorVars,
      array2DVars>>

notSampler ==
    <<rngVars, uniformVars, cacheVars, generatorVars, distributionVars,
      maxminVars, jumpVars, sceneVars, hashMapVars, inlinedVectorVars,
      array2DVars>>

notGenerator ==
    <<rngVars, uniformVars, cacheVars, samplerVars, distributionVars,
      maxminVars, jumpVars, sceneVars, hashMapVars, inlinedVectorVars,
      array2DVars>>

notDistribution ==
    <<rngVars, uniformVars, cacheVars, samplerVars, generatorVars, maxminVars,
      jumpVars, sceneVars, hashMapVars, inlinedVectorVars, array2DVars>>

notMaxMin ==
    <<rngVars, uniformVars, cacheVars, samplerVars, generatorVars,
      distributionVars, jumpVars, sceneVars, hashMapVars, inlinedVectorVars,
      array2DVars>>

notJump ==
    <<rngVars, uniformVars, cacheVars, samplerVars, generatorVars,
      distributionVars, maxminVars, sceneVars, hashMapVars, inlinedVectorVars,
      array2DVars>>

notScene ==
    <<rngVars, uniformVars, cacheVars, samplerVars, generatorVars,
      distributionVars, maxminVars, jumpVars, hashMapVars, inlinedVectorVars,
      array2DVars>>

notHashMap ==
    <<rngVars, uniformVars, cacheVars, samplerVars, generatorVars,
      distributionVars, maxminVars, jumpVars, sceneVars, inlinedVectorVars,
      array2DVars>>

notInlinedVector ==
    <<rngVars, uniformVars, cacheVars, samplerVars, generatorVars,
      distributionVars, maxminVars, jumpVars, sceneVars, hashMapVars,
      array2DVars>>

notArray2D ==
    <<rngVars, uniformVars, cacheVars, samplerVars, generatorVars,
      distributionVars, maxminVars, jumpVars, sceneVars, hashMapVars,
      inlinedVectorVars>>

-----------------------------------------------------------------------------
(* uint64_t arithmetic on eight bytes, least significant first.            *)

U64Zero == <<0, 0, 0, 0, 0, 0, 0, 0>>

U64One == <<1, 0, 0, 0, 0, 0, 0, 0>>

\* carry propagation of eight column sums, the result truncated to 64 bits
Carry64(c1, c2, c3, c4, c5, c6, c7, c8) ==
    LET t2 == c2 + (c1 \div 256)
        t3 == c3 + (t2 \div 256)
        t4 == c4 + (t3 \div 256)
        t5 == c5 + (t4 \div 256)
        t6 == c6 + (t5 \div 256)
        t7 == c7 + (t6 \div 256)
        t8 == c8 + (t7 \div 256)
    IN  <<c1 % 256, t2 % 256, t3 % 256, t4 % 256,
          t5 % 256, t6 % 256, t7 % 256, t8 % 256>>

\* x * y on uint64_t: the schoolbook product, the columns above 2^64 dropped
Mul64(x, y) ==
    Carry64(x[1] * y[1],
            x[1] * y[2] + x[2] * y[1],
            x[1] * y[3] + x[2] * y[2] + x[3] * y[1],
            x[1] * y[4] + x[2] * y[3] + x[3] * y[2] + x[4] * y[1],
            x[1] * y[5] + x[2] * y[4] + x[3] * y[3] + x[4] * y[2] + x[5] * y[1],
            x[1] * y[6] + x[2] * y[5] + x[3] * y[4] + x[4] * y[3] + x[5] * y[2] + x[6] * y[1],
            x[1] * y[7] + x[2] * y[6] + x[3] * y[5] + x[4] * y[4] + x[5] * y[3] + x[6] * y[2] + x[7] * y[1],
            x[1] * y[8] + x[2] * y[7] + x[3] * y[6] + x[4] * y[5] + x[5] * y[4] + x[6] * y[3] + x[7] * y[2] + x[8] * y[1])

\* x + y on uint64_t
Add64(x, y) ==
    Carry64(x[1] + y[1], x[2] + y[2], x[3] + y[3], x[4] + y[4],
            x[5] + y[5], x[6] + y[6], x[7] + y[7], x[8] + y[8])

\* bit i (0 = least significant) of x
Bit64(x, i) == (x[(i \div 8) + 1] \div (2 ^ (i % 8))) % 2

\* x | (1 << i), for a bit i that is clear in x
SetBit64(x, i) == [x EXCEPT ![(i \div 8) + 1] = @ + 2 ^ (i % 8)]

\* x / 2 on uint64_t
Half64(x) ==
    LET h(k) == (x[k] \div 2) + (x[k + 1] % 2) * 128
    IN  <<h(1), h(2), h(3), h(4), h(5), h(6), h(7), x[8] \div 2>>

\* x << 1 on uint64_t
Shl1(x) ==
    Carry64(2 * x[1], 2 * x[2], 2 * x[3], 2 * x[4],
            2 * x[5], 2 * x[6], 2 * x[7], 2 * x[8])

\* (x << 1) | 1 on uint64_t
Shl1Or1(x) ==
    Carry64(2 * x[1] + 1, 2 * x[2], 2 * x[3], 2 * x[4],
            2 * x[5], 2 * x[6], 2 * x[7], 2 * x[8])

\* a small non-negative integer as a uint64_t
RECURSIVE NatToLimbs(_, _)
NatToLimbs(n, k) == IF k = 0 THEN <<>> ELSE <<n % 256>> \o NatToLimbs(n \div 256, k - 1)

\* two's complement negation on uint64_t: ~x + 1
Neg64(x) ==
    Carry64(255 - x[1] + 1, 255 - x[2], 255 - x[3], 255 - x[4],
            255 - x[5], 255 - x[6], 255 - x[7], 255 - x[8])

\* (uint64_t)i with the sign of i dropped
ToU64Magnitude(i) == NatToLimbs(IF i >= 0 THEN i ELSE -i, 8)

\* (uint64_t)i for an int64_t i
ToU64(i) == IF i >= 0 THEN NatToLimbs(i, 8) ELSE Neg64(NatToLimbs(-i, 8))

-----------------------------------------------------------------------------
(* RNG                                                                     *)

\* 0x5851f42d4c957f2d
PCG32_MULT == <<45, 127, 149, 76, 45, 244, 81, 88>>

\* 0x853c49e6748fea9b
PCG32_DEFAULT_STATE == <<155, 234, 143, 116, 230, 73, 60, 133>>

\* 0xda3e39cb94b95bdb
PCG32_DEFAULT_STREAM == <<219, 91, 185, 148, 203, 57, 62, 218>>

\* RNG::RNG()
DefaultRNG == [state |-> PCG32_DEFAULT_STATE, inc |-> PCG32_DEFAULT_STREAM]

\* state = oldstate * PCG32_MULT + inc
StepState(state, inc) == Add64(Mul64(state, PCG32_MULT), inc)

\* bit j of xorshifted = (uint32_t)(((oldstate >> 18) ^ oldstate) >> 27)
XorShifted(old, j) ==
    LET hi == IF j + 45 < 64 THEN Bit64(old, j + 45) ELSE 0
    IN  (hi + Bit64(old, j + 27)) % 2

\* rot = (uint32_t)(oldstate >> 59)
Rot(old) == old[8] \div 8

\* the value Uniform<uint32_t>() returns from oldstate, as the set of its set
\* bits: (xorshifted >> rot) | (xorshifted << ((~rot + 1u) & 31))
Uniform32Value(old) ==
    {j \in 0..31 : XorShifted(old, (j + Rot(old)) % 32) = 1}

\* the generator after Uniform<uint32_t>()
Uniform32(r) == [r EXCEPT !.state = StepState(r.state, r.inc)]

\* RNG(sequenceIndex, seed): SetSequence(sequenceIndex, seed) on an object
\* just made
SetSequence(sequenceIndex, seed) ==
    LET inc == Shl1Or1(sequenceIndex)
        r1  == Uniform32([state |-> U64Zero, inc |-> inc])
        r2  == [r1 EXCEPT !.state = Add64(r1.state, seed)]
    IN  Uniform32(r2)

\* SetSequence called on r, without its first line, state = 0u
SetSequenceStateKept(r, sequenceIndex, seed) ==
    LET r0 == [r EXCEPT !.inc = Shl1Or1(sequenceIndex)]
        r1 == Uniform32(r0)
        r2 == [r1 EXCEPT !.state = Add64(r1.state, seed)]
    IN  Uniform32(r2)

\* r.SetSequence(sequenceIndex, seed), on a generator r with a history:
\* state = 0u; inc = (sequenceIndex << 1u) | 1u; a draw; state += seed; a draw
SetSequenceOn(r, sequenceIndex, seed) ==
    LET r0 == [r EXCEPT !.state = U64Zero, !.inc = Shl1Or1(sequenceIndex)]
        r1 == Uniform32(r0)
        r2 == [r1 EXCEPT !.state = Add64(r1.state, seed)]
    IN  Uniform32(r2)

\* AdvanceStep with accPlus += curPlus in place of
\* accPlus = curMult * accPlus + curPlus
AdvanceStepPlusOnly(s) ==
    LET odd == s[5][1] % 2 = 1
    IN  << Mul64(s[1], s[1]),
           Mul64(Add64(s[1], U64One), s[2]),
           IF odd THEN Mul64(s[3], s[1]) ELSE s[3],
           IF odd THEN Add64(s[4], s[2]) ELSE s[4],
           Half64(s[5]) >>

\* one iteration of the loop of RNG::Advance on
\* s = <<curMult, curPlus, accMult, accPlus, delta>>
AdvanceStep(s) ==
    LET odd == s[5][1] % 2 = 1
    IN  << Mul64(s[1], s[1]),
           Mul64(Add64(s[1], U64One), s[2]),
           IF odd THEN Mul64(s[3], s[1]) ELSE s[3],
           IF odd THEN Add64(Mul64(s[4], s[1]), s[2]) ELSE s[4],
           Half64(s[5]) >>

\* while (delta > 0) ...
RECURSIVE AdvanceLoop(_)
AdvanceLoop(s) == IF s[5] = U64Zero THEN s ELSE AdvanceLoop(AdvanceStep(s))

\* RNG::Advance from uint64_t delta = (uint64_t)idelta on
AdvanceBy(r, delta) ==
    LET s == AdvanceLoop(<<PCG32_MULT, r.inc, U64One, U64Zero, delta>>)
    IN  [r EXCEPT !.state = Add64(Mul64(s[3], r.state), s[4])]

\* RNG::Advance(idelta)
Advance(r, idelta) == AdvanceBy(r, ToU64(idelta))

\* DifferenceStep with curState = curState * curMult, the increment left out
DifferenceStepNoPlus(state, s) ==
    LET differ == Bit64(state, s[4]) # Bit64(s[3], s[4])
        cs     == IF differ THEN Mul64(s[3], s[1]) ELSE s[3]
        d      == IF differ THEN SetBit64(s[5], s[4]) ELSE s[5]
    IN  << Mul64(s[1], s[1]),
           Mul64(Add64(s[1], U64One), s[2]),
           cs,
           s[4] + 1,
           d,
           IF Bit64(state, s[4]) # Bit64(cs, s[4]) THEN "CHECK_EQ fails" ELSE "running" >>

\* one iteration of the loop of RNG::operator- on
\* s = <<curMult, curPlus, curState, bit, distance, result>>, theBit = 1 << bit;
\* the iteration ends the run when the CHECK_EQ on the current bit fails
DifferenceStep(state, s) ==
    LET differ == Bit64(state, s[4]) # Bit64(s[3], s[4])
        cs     == IF differ THEN Add64(Mul64(s[3], s[1]), s[2]) ELSE s[3]
        d      == IF differ THEN SetBit64(s[5], s[4]) ELSE s[5]
    IN  << Mul64(s[1], s[1]),
           Mul64(Add64(s[1], U64One), s[2]),
           cs,
           s[4] + 1,
           d,
           IF Bit64(state, s[4]) # Bit64(cs, s[4]) THEN "CHECK_EQ fails" ELSE "running" >>

\* the loop of RNG::operator- with a theBit of 32 bits, which is 0 after 32
\* iterations
RECURSIVE DifferenceLoop32(_, _)
DifferenceLoop32(state, s) ==
    IF s[6] # "running" THEN [result |-> s[6], distance |-> s[5], iterations |-> s[4]]
    ELSE IF state = s[3]
    THEN [result |-> "returns", distance |-> s[5], iterations |-> s[4]]
    ELSE IF s[4] >= 32
    THEN [result |-> "loops forever", distance |-> s[5], iterations |-> s[4]]
    ELSE DifferenceLoop32(state, DifferenceStep(state, s))

\* while (state != curState) ...; theBit <<= 1 leaves theBit = 0 after 64
\* iterations, and from then on no iteration changes curState
RECURSIVE DifferenceLoop(_, _)
DifferenceLoop(state, s) ==
    IF s[6] # "running" THEN [result |-> s[6], distance |-> s[5], iterations |-> s[4]]
    ELSE IF state = s[3]
    THEN [result |-> "returns", distance |-> s[5], iterations |-> s[4]]
    ELSE IF s[4] >= 64
    THEN [result |-> "loops forever", distance |-> s[5], iterations |-> s[4]]
    ELSE DifferenceLoop(state, DifferenceStep(state, s))

\* RNG::operator- without its first line, CHECK_EQ(inc, other.inc)
DifferenceUnchecked(r, other) ==
    DifferenceLoop(r.state, <<PCG32_MULT, r.inc, other.state, 0, U64Zero, "running">>)

\* RNG::operator-: r - other; distance is the uint64_t that the int64_t
\* result is cast from
Difference(r, other) ==
    IF r.inc # other.inc
    THEN [result |-> "CHECK_EQ fails", distance |-> U64Zero, iterations |-> 0]
    ELSE DifferenceLoop(r.state,
                        <<PCG32_MULT, r.inc, other.state, 0, U64Zero, "running">>)

-----------------------------------------------------------------------------
(* RNG::Uniform(T b), the bounded draw, for the four integer types that    *)
(* Uniform<T>() is specialised for.  The counting of raw draws is done at  *)
(* a reduced word size: unsigned int has WordBits bits, uint32_t and       *)
(* int32_t are as wide as unsigned int and uint64_t and int64_t twice as   *)
(* wide, which is all the arithmetic of Uniform(T b) depends on.           *)

\* the number of bits of unsigned int (32 in the program)
WordBits == 4

\* the largest bound b the calls are made with
MaxBound == 7

\* the types T with a specialisation of Uniform<T>() that Uniform(T b) takes
IntegerTypes == {"uint32_t", "uint64_t", "int32_t", "int64_t"}

\* std::is_signed<T>
IsSigned(T) == T \in {"int32_t", "int64_t"}

\* the width W of T
BitsOf(T) == IF T \in {"uint32_t", "int32_t"} THEN WordBits ELSE 2 * WordBits

\* std::numeric_limits<T>::max()
MaxOf(T) == IF IsSigned(T) THEN 2 ^ (BitsOf(T) - 1) - 1 ELSE 2 ^ BitsOf(T) - 1

\* C++ % on operands of one signed type: the quotient is truncated toward
\* zero, so the remainder has the sign of the dividend
TruncatedRem(x, y) == IF x >= 0 THEN x % y ELSE -((-x) % y)

\* T threshold = (~b + 1u) % b.  ~b + 1u is computed in the common type of T
\* and unsigned int: unsigned int for int32_t (equal rank: the signed operand
\* is converted), T itself for the other three; ~b is -b - 1 in a signed T.
Threshold(T, b) ==
    CASE T = "uint32_t" -> ((2 ^ WordBits - 1 - b + 1) % 2 ^ WordBits) % b
      [] T = "uint64_t" -> ((2 ^ (2 * WordBits) - 1 - b + 1) % 2 ^ (2 * WordBits)) % b
      [] T = "int32_t"  -> (((-b - 1) + 1) % 2 ^ WordBits) % b
      [] T = "int64_t"  -> TruncatedRem((-b - 1) + 1, b)

\* the values Uniform<uint32_t>() and Uniform<uint64_t>() can return
UnsignedDraws(T) == 0 .. (2 ^ BitsOf(T) - 1)

\* Uniform<int32_t>() and Uniform<int64_t>() on the unsigned draw v
ToSigned(T, v) ==
    IF v <= MaxOf(T) THEN v
    ELSE (v - 2 ^ (BitsOf(T) - 1)) + (-(2 ^ (BitsOf(T) - 1)))

\* the values T r = Uniform<T>() can take
RawDraws(T) ==
    IF IsSigned(T) THEN {ToSigned(T, v) : v \in UnsignedDraws(T)}
    ELSE UnsignedDraws(T)

\* if (r >= threshold)
Accepted(r, threshold) == r >= threshold

\* return r % b
Reduce(r, b) == TruncatedRem(r, b)

\* the bounds b > 0 that T can hold
BoundsOf(T) == {b \in 1..MaxBound : b <= MaxOf(T)}

\* no Uniform(T b) call is running
InitUniform ==
    /\ uPc = "idle"
    /\ uT = "uint32_t"
    /\ uB = 1
    /\ uThreshold = 0
    /\ uRaw = "none"
    /\ uResult = "none"

\* Uniform(T b) is called: the threshold is computed
UniformCall(T, b) ==
    /\ uPc = "idle"
    /\ uPc' = "threshold"
    /\ uT' = T
    /\ uB' = b
    /\ uThreshold' = Threshold(T, b)
    /\ uRaw' = "none"
    /\ uResult' = "none"
    /\ UNCHANGED notUniform

\* one iteration of while (true): a raw draw that passes the test is returned
UniformAccept(r) ==
    /\ uPc \in {"threshold", "loop"}
    /\ Accepted(r, uThreshold)
    /\ uRaw' = r
    /\ uResult' = Reduce(r, uB)
    /\ uPc' = "returned"
    /\ UNCHANGED <<uT, uB, uThreshold>>
    /\ UNCHANGED notUniform

\* one iteration of while (true): a raw draw that fails the test is dropped
UniformReject(r) ==
    /\ uPc \in {"threshold", "loop"}
    /\ ~Accepted(r, uThreshold)
    /\ uRaw' = r
    /\ uPc' = "loop"
    /\ UNCHANGED <<uT, uB, uThreshold, uResult>>
    /\ UNCHANGED notUniform

\* the caller has the value: the call and its locals are gone
UniformReturn ==
    /\ uPc = "returned"
    /\ uPc' = "idle"
    /\ uRaw' = "none"
    /\ uResult' = "none"
    /\ UNCHANGED <<uT, uB, uThreshold>>
    /\ UNCHANGED notUniform

NextUniform ==
    \/ \E T \in IntegerTypes : \E b \in BoundsOf(T) : UniformCall(T, b)
    \/ \E r \in RawDraws(uT) : UniformAccept(r)
    \/ \E r \in RawDraws(uT) : UniformReject(r)
    \/ UniformReturn

\* the number of raw draws of the running call that are accepted and reduce to j
AcceptedCount(j) ==
    Cardinality({r \in RawDraws(uT) : Accepted(r, uThreshold) /\ Reduce(r, uB) = j})

(* C7: Uniform(b) is free of modulo bias for every type T and bound b > 0: *)
(* the value returned is in [0, b), and the raw draws that the rejection   *)
(* test accepts hold equally many values of each residue in [0, b).        *)
UniformUnbiased ==
    /\ uPc = "returned" => uResult \in 0..(uB - 1)
    /\ uPc = "threshold" =>
           \A j \in 0..(uB - 1) : AcceptedCount(j) = AcceptedCount(0)

-----------------------------------------------------------------------------
(* The RNG as a state machine: two generators, a and b, driven by          *)
(* SetSequence, Uniform<uint32_t>() and Advance, and b assigned from a.    *)

\* at most this many calls on a and b after b was last assigned from a
MaxOps == 3

\* the <<sequenceIndex, seed>> pairs a is seeded with: two seeds on one
\* stream, and the stream of the largest index, 2^64 - 1
SeedPairs == {<<1234, 77>>, <<1234, 0>>, <<-1, 77>>}

\* the deltas Advance is called with: the ends of [0, 10^4] and values between
AdvanceDeltas == {0, 1, 16, 10000}

\* a - b as the uint64_t it is computed as, "none" when operator- does not return
DistanceOf(a, b) ==
    LET d == Difference(a, b)
    IN  IF d.result = "returns" THEN d.distance ELSE "none"

\* e + k modulo 2^64, for a difference e that exists
Plus64(e, k) == IF e = "none" THEN "none" ELSE Add64(e, ToU64(k))

\* no a - b evaluated
NoDifference ==
    [inc |-> U64Zero, otherInc |-> U64Zero, result |-> "none",
     distance |-> U64Zero, iterations |-> 0]

\* a failed CHECK_EQ ends the program
Fatal == diff.result = "CHECK_EQ fails"

\* RNG a, b: both default-constructed
InitRNG ==
    /\ rngA = DefaultRNG
    /\ rngB = DefaultRNG
    /\ origA = DefaultRNG
    /\ nA = 0
    /\ lastDraw = <<>>
    /\ expect = U64Zero
    /\ ops = 0
    /\ diff = NoDifference

\* a.SetSequence(sequenceIndex, seed)
SetSequenceA(sequenceIndex, seed) ==
    /\ ~Fatal
    /\ diff' = NoDifference
    /\ ops < MaxOps
    /\ rngA' = SetSequenceOn(rngA, ToU64(sequenceIndex), ToU64(seed))
    /\ origA' = rngA'
    /\ nA' = 0
    /\ lastDraw' = <<>>
    /\ ops' = ops + 1
    /\ expect' = DistanceOf(rngA', rngB)
    /\ UNCHANGED rngB
    /\ UNCHANGED notRNG

\* RNG b = a, for a generator a that was just seeded
CopyAToB ==
    /\ ~Fatal
    /\ diff' = NoDifference
    /\ rngA = origA
    /\ rngB' = rngA
    /\ ops' = 0
    /\ expect' = U64Zero
    /\ lastDraw' = <<>>
    /\ UNCHANGED <<rngA, origA, nA>>
    /\ UNCHANGED notRNG

\* a.Uniform<uint32_t>()
DrawA ==
    /\ ~Fatal
    /\ diff' = NoDifference
    /\ ops < MaxOps
    /\ rngA' = Uniform32(rngA)
    /\ lastDraw' = <<nA, Uniform32Value(rngA.state)>>
    /\ nA' = nA + 1
    /\ ops' = ops + 1
    /\ expect' = Plus64(expect, 1)
    /\ UNCHANGED <<rngB, origA>>
    /\ UNCHANGED notRNG

\* a.Advance(idelta)
AdvanceA(idelta) ==
    /\ ~Fatal
    /\ diff' = NoDifference
    /\ ops < MaxOps
    /\ rngA' = Advance(rngA, idelta)
    /\ nA' = nA + idelta
    /\ ops' = ops + 1
    /\ expect' = Plus64(expect, idelta)
    /\ UNCHANGED <<rngB, origA, lastDraw>>
    /\ UNCHANGED notRNG

\* b.Uniform<uint32_t>()
DrawB ==
    /\ ~Fatal
    /\ diff' = NoDifference
    /\ ops < MaxOps
    /\ rngB' = Uniform32(rngB)
    /\ ops' = ops + 1
    /\ expect' = Plus64(expect, -1)
    /\ UNCHANGED <<rngA, origA, nA, lastDraw>>
    /\ UNCHANGED notRNG

\* b.Advance(idelta)
AdvanceB(idelta) ==
    /\ ~Fatal
    /\ diff' = NoDifference
    /\ ops < MaxOps
    /\ rngB' = Advance(rngB, idelta)
    /\ ops' = ops + 1
    /\ expect' = Plus64(expect, -idelta)
    /\ UNCHANGED <<rngA, origA, nA, lastDraw>>
    /\ UNCHANGED notRNG

\* a - b: the operands' streams and how operator- ended
Subtract ==
    /\ ~Fatal
    /\ diff = NoDifference
    /\ diff' = [inc |-> rngA.inc, otherInc |-> rngB.inc] @@ Difference(rngA, rngB)
    /\ UNCHANGED <<rngA, rngB, origA, nA, lastDraw, expect, ops>>
    /\ UNCHANGED notRNG

NextRNG ==
    \/ Subtract
    \/ \E p \in SeedPairs : SetSequenceA(p[1], p[2])
    \/ CopyAToB
    \/ DrawA
    \/ \E k \in AdvanceDeltas : AdvanceA(k)
    \/ DrawB
    \/ \E k \in AdvanceDeltas : AdvanceB(k)

(* C5: whenever a and b are on the same stream, a - b returns, and it is   *)
(* the difference k0 the pair had when it was set up plus every delta a    *)
(* was advanced by since (one per draw), minus those of b, modulo 2^64.    *)
AdvanceDifferenceInverse ==
    rngA.inc = rngB.inc =>
        /\ Difference(rngA, rngB).result = "returns"
        /\ Difference(rngA, rngB).distance = expect

\* a was advanced by 10^4 from a copy b of itself
AdvancedFromCopy ==
    /\ rngA.inc = rngB.inc
    /\ ops = 1
    /\ expect = ToU64(10000)
    /\ rngA # rngB

(* C6: the state a is in after any mix of draws and Advance calls is the   *)
(* state Advance reaches in one jump of as many steps from the seeded      *)
(* generator, and each draw returned what the generator jumped to the      *)
(* draw's position returns.                                                *)
JumpAheadEqualsStepping ==
    /\ rngA = Advance(origA, nA)
    /\ lastDraw # <<>> =>
           lastDraw[2] = Uniform32Value(Advance(origA, lastDraw[1]).state)

\* two draws in a row on a seeded generator
TwoDrawsStepped ==
    /\ nA = 2 /\ ops = 2
    /\ lastDraw # <<>> /\ lastDraw[1] = 1
    /\ origA # DefaultRNG

(* C15: a - b on generators of different streams fails the CHECK_EQ on the *)
(* streams before any iteration of the distance loop, so no distance is    *)
(* computed and nothing is returned; on generators of one stream that      *)
(* check passes.                                                           *)
DifferenceChecksStreams ==
    diff # NoDifference =>
        /\ diff.inc # diff.otherInc =>
               /\ diff.result = "CHECK_EQ fails"
               /\ diff.iterations = 0
               /\ diff.distance = U64Zero
        /\ diff.inc = diff.otherInc =>
               ~(diff.result = "CHECK_EQ fails" /\ diff.iterations = 0)

\* a, seeded on a stream of its own, was subtracted from
MismatchedStreamsSubtracted ==
    /\ diff # NoDifference
    /\ diff.inc # diff.otherInc
    /\ rngA.inc = diff.inc /\ rngB.inc = diff.otherInc
    /\ Fatal

\* 2 * x + 1 modulo 2^64
TwicePlusOne(x) == Add64(Add64(x, x), U64One)

(* C19: in every state inc of a and of b is odd; SetSequence sets inc to   *)
(* 2 * sequenceIndex + 1 modulo 2^64; a draw or an Advance leaves inc as   *)
(* it is: inc of a is the one its SetSequence gave it, inc of b one that a *)
(* constructor or a SetSequence gave.                                      *)
IncOddAndFixed ==
    /\ Bit64(rngA.inc, 0) = 1
    /\ Bit64(rngB.inc, 0) = 1
    /\ rngA.inc = origA.inc
    /\ origA # DefaultRNG =>
           \E p \in SeedPairs :
               /\ origA = SetSequence(ToU64(p[1]), ToU64(p[2]))
               /\ origA.inc = TwicePlusOne(ToU64(p[1]))
    /\ rngB.inc \in {DefaultRNG.inc} \cup {TwicePlusOne(ToU64(p[1])) : p \in SeedPairs}

\* a, seeded on the stream of index 2^64 - 1, drew and was advanced
LargestStreamStepped ==
    /\ origA.inc = ToU64(-1)
    /\ nA > 1
    /\ lastDraw # <<>>
    /\ rngA.state # origA.state

(* C21: whatever draws, Advance calls and SetSequence calls came before,   *)
(* a.SetSequence(i, seed) leaves a with the state and inc of a fresh       *)
(* RNG(i, seed), and so does every state of a until its next call, from    *)
(* which the draws that follow are those of the fresh generator.           *)
SetSequenceReseeds ==
    /\ [][\A p \in SeedPairs :
             (ops' = ops + 1 /\ nA' = 0 /\ origA' = rngA' /\ SetSequenceA(p[1], p[2])) =>
                 /\ rngA' = SetSequence(ToU64(p[1]), ToU64(p[2]))
                 /\ Uniform32Value(rngA'.state) =
                        Uniform32Value(SetSequence(ToU64(p[1]), ToU64(p[2])).state)]_vars
    /\ [](origA # DefaultRNG =>
             \E p \in SeedPairs : origA = SetSequence(ToU64(p[1]), ToU64(p[2])))

\* a was seeded on stream 1234, drew, was advanced, and was seeded again on
\* the stream of the largest index
ReseededAfterHistory ==
    /\ ops = 3
    /\ nA = 0
    /\ rngA = origA
    /\ rngA = SetSequence(ToU64(-1), ToU64(77))
    /\ rngB = DefaultRNG

-----------------------------------------------------------------------------
(* BufferCache<int>: LookupOrAdd called from several threads.              *)

\* at most this many LookupOrAdd calls are made
MaxCalls == 3

\* the threads that call LookupOrAdd
Threads == {"t1", "t2", "t3"}

\* sizeof(int)
SizeofT == 4

\* the buffers passed in: two with the same elements in another order, one of
\* another length whose elements have the same sum
Buffers == {<<1, 2>>, <<2, 1>>, <<3>>}

\* the sum of the elements of a buffer
RECURSIVE SumOf(_)
SumOf(q) == IF q = <<>> THEN 0 ELSE Head(q) + SumOf(Tail(q))

\* HashBuffer(ptr, size): a hash of the bytes.  No 64-bit hash tells all
\* buffers apart; here the buffers with equal sums are the ones that collide.
HashBuffer(b) == SumOf(b)

\* a BufferId of the hash alone
BufferIdHashOnly(b) == [hash |-> HashBuffer(b), size |-> 0]

\* BufferId id((const char *)buf.data(), buf.size() * sizeof(T))
BufferId(b) == [hash |-> HashBuffer(b), size |-> Len(b) * SizeofT]

\* the cache and its threads after BufferCache(alloc), in the build given
ConstructedCache(debug) ==
    /\ cache = <<>>
    /\ heap = <<>>
    /\ mutexOwner = "free"
    /\ tpc = [t \in Threads |-> "idle"]
    /\ buf = [t \in Threads |-> <<>>]
    /\ id = [t \in Threads |-> BufferId(<<>>)]
    /\ nBufferCacheLookups = 0
    /\ nBufferCacheHits = 0
    /\ redundantBufferBytes = 0
    /\ debugBuild = debug
    /\ aborted = FALSE
    /\ lookups = 0
    /\ log = <<>>
    /\ iter = [t \in Threads |-> 0]
    /\ released = EmptyBag
    /\ bytesUsed = -1
    /\ clears = 0
    /\ quiet = TRUE

\* a release build
InitCache == ConstructedCache(FALSE)

\* either build of the program
InitCacheBuilds == \E debug \in BOOLEAN : ConstructedCache(debug)

\* the threads inside a LookupOrAdd call
InFlight == {t \in Threads : tpc[t] # "idle"}

\* thread t calls LookupOrAdd(b): the id is computed and the lookup counted
LookupOrAddCall(t, b) ==
    /\ ~aborted
    /\ lookups < MaxCalls
    /\ tpc[t] = "idle"
    /\ buf' = [buf EXCEPT ![t] = b]
    /\ id' = [id EXCEPT ![t] = BufferId(b)]
    /\ nBufferCacheLookups' = nBufferCacheLookups + 1
    /\ lookups' = lookups + 1
    /\ tpc' = [tpc EXCEPT ![t] = "lock"]
    /\ UNCHANGED <<cache, heap, mutexOwner, nBufferCacheHits, redundantBufferBytes,
                   debugBuild, aborted, log>>
    /\ UNCHANGED <<iter, lifecycleVars>>
    /\ UNCHANGED notCache

\* Lock without the mutex: the guard is constructed whoever holds it
LockUnguarded(t) ==
    /\ ~aborted
    /\ tpc[t] = "lock"
    /\ mutexOwner' = t
    /\ tpc' = [tpc EXCEPT ![t] = "find"]
    /\ UNCHANGED <<cache, heap, buf, id, nBufferCacheLookups, nBufferCacheHits,
                   redundantBufferBytes, debugBuild, aborted, lookups, log>>
    /\ UNCHANGED <<iter, lifecycleVars>>
    /\ UNCHANGED notCache

\* std::lock_guard<std::mutex> lock(mutex)
Lock(t) ==
    /\ ~aborted
    /\ tpc[t] = "lock"
    /\ mutexOwner = "free"
    /\ mutexOwner' = t
    /\ tpc' = [tpc EXCEPT ![t] = "find"]
    /\ UNCHANGED <<cache, heap, buf, id, nBufferCacheLookups, nBufferCacheHits,
                   redundantBufferBytes, debugBuild, aborted, lookups, log>>
    /\ UNCHANGED <<iter, lifecycleVars>>
    /\ UNCHANGED notCache

\* auto iter = cache.find(id); if (iter != cache.end())
Find(t) ==
    /\ ~aborted
    /\ tpc[t] = "find"
    /\ tpc' = [tpc EXCEPT ![t] = IF id[t] \in DOMAIN cache THEN "hit" ELSE "miss"]
    /\ iter' = [iter EXCEPT ![t] = IF id[t] \in DOMAIN cache THEN cache[id[t]] ELSE 0]
    /\ UNCHANGED <<cache, heap, mutexOwner, buf, id, nBufferCacheLookups,
                   nBufferCacheHits, redundantBufferBytes, debugBuild, aborted,
                   lookups, log>>
    /\ UNCHANGED lifecycleVars
    /\ UNCHANGED notCache

\* the lock_guard's destructor
Unlocked(t) == IF mutexOwner = t THEN "free" ELSE mutexOwner

\* the record of a call that returns; epoch is the number of Clear calls
\* made before it returned
Returned(t, path, ptr) ==
    [thread |-> t, buf |-> buf[t], path |-> path, ret |-> ptr,
     inFlight |-> InFlight \ {t}, epoch |-> clears]

\* the hit branch in a debug build when the bytes differ: DCHECK is fatal
HitAbort(t) ==
    /\ ~aborted
    /\ tpc[t] = "hit"
    /\ debugBuild
    /\ heap[iter[t]] # buf[t]
    /\ aborted' = TRUE
    /\ UNCHANGED <<cache, heap, mutexOwner, tpc, buf, id, nBufferCacheLookups,
                   nBufferCacheHits, redundantBufferBytes, debugBuild, lookups, log>>
    /\ UNCHANGED <<iter, lifecycleVars>>
    /\ UNCHANGED notCache

\* HitReturn without ++nBufferCacheHits
HitReturnUncounted(t) ==
    /\ ~aborted
    /\ tpc[t] = "hit"
    /\ debugBuild => heap[iter[t]] = buf[t]
    /\ redundantBufferBytes' = redundantBufferBytes + Len(buf[t]) * SizeofT
    /\ log' = Append(log, Returned(t, "hit", iter[t]))
    /\ mutexOwner' = Unlocked(t)
    /\ tpc' = [tpc EXCEPT ![t] = "idle"]
    /\ iter' = [iter EXCEPT ![t] = 0]
    /\ UNCHANGED <<cache, heap, buf, id, nBufferCacheLookups, nBufferCacheHits,
                   debugBuild, aborted, lookups>>
    /\ UNCHANGED lifecycleVars
    /\ UNCHANGED notCache

\* the hit branch: the counters, return iter->second->data(); the
\* capacity() of buf is taken to be its size()
HitReturn(t) ==
    /\ ~aborted
    /\ tpc[t] = "hit"
    /\ debugBuild => heap[iter[t]] = buf[t]
    /\ nBufferCacheHits' = nBufferCacheHits + 1
    /\ redundantBufferBytes' = redundantBufferBytes + Len(buf[t]) * SizeofT
    /\ log' = Append(log, Returned(t, "hit", iter[t]))
    /\ mutexOwner' = Unlocked(t)
    /\ tpc' = [tpc EXCEPT ![t] = "idle"]
    /\ iter' = [iter EXCEPT ![t] = 0]
    /\ UNCHANGED <<cache, heap, buf, id, nBufferCacheLookups, debugBuild, aborted,
                   lookups>>
    /\ UNCHANGED lifecycleVars
    /\ UNCHANGED notCache

\* the address of a vector made before, when there is one
ReusedPointer == IF heap = <<>> THEN Cardinality({heap}) ELSE CHOOSE q \in DOMAIN heap : TRUE

\* an address no vector made so far has
NewPointer == Cardinality(DOMAIN heap) + 1

\* MissInsert into a map that keeps the newest entry only
MissInsertEvicting(t) ==
    /\ ~aborted
    /\ tpc[t] = "miss"
    /\ heap' = [p \in DOMAIN heap \cup {NewPointer} |->
                    IF p = NewPointer THEN buf[t] ELSE heap[p]]
    /\ cache' = [k \in {id[t]} |-> NewPointer]
    /\ tpc' = [tpc EXCEPT ![t] = "inserted"]
    /\ UNCHANGED <<mutexOwner, buf, id, nBufferCacheLookups, nBufferCacheHits,
                   redundantBufferBytes, debugBuild, aborted, lookups, log>>
    /\ UNCHANGED <<iter, lifecycleVars>>
    /\ UNCHANGED notCache

\* cache[id] = alloc.new_object<pstd::vector<T>>(buf.begin(), buf.end(), alloc)
MissInsert(t) ==
    /\ ~aborted
    /\ tpc[t] = "miss"
    /\ heap' = [p \in DOMAIN heap \cup {NewPointer} |->
                    IF p = NewPointer THEN buf[t] ELSE heap[p]]
    /\ cache' = [k \in DOMAIN cache \cup {id[t]} |->
                     IF k = id[t] THEN NewPointer ELSE cache[k]]
    /\ tpc' = [tpc EXCEPT ![t] = "inserted"]
    /\ UNCHANGED <<mutexOwner, buf, id, nBufferCacheLookups, nBufferCacheHits,
                   redundantBufferBytes, debugBuild, aborted, lookups, log>>
    /\ UNCHANGED <<iter, lifecycleVars>>
    /\ UNCHANGED notCache

\* return cache[id]->data()
MissReturn(t) ==
    /\ ~aborted
    /\ tpc[t] = "inserted"
    /\ id[t] \in DOMAIN cache
    /\ log' = Append(log, Returned(t, "miss", cache[id[t]]))
    /\ mutexOwner' = Unlocked(t)
    /\ tpc' = [tpc EXCEPT ![t] = "idle"]
    /\ UNCHANGED <<cache, heap, buf, id, nBufferCacheLookups, nBufferCacheHits,
                   redundantBufferBytes, debugBuild, aborted, lookups>>
    /\ UNCHANGED <<iter, lifecycleVars>>
    /\ UNCHANGED notCache

NextCache ==
    \/ \E t \in Threads, b \in Buffers : LookupOrAddCall(t, b)
    \/ \E t \in Threads : Lock(t)
    \/ \E t \in Threads : Find(t)
    \/ \E t \in Threads : HitAbort(t)
    \/ \E t \in Threads : HitReturn(t)
    \/ \E t \in Threads : MissInsert(t)
    \/ \E t \in Threads : MissReturn(t)

\* the positions of the log whose call took the path given
LoggedOn(path) == {j \in 1..Len(log) : log[j].path = path}

\* the threads that have inserted and not yet returned
Inserting == {t \in Threads : tpc[t] = "inserted"}

(* C1, as amended: a call whose buffer has the bytes of an earlier call's  *)
(* buffer returns that call's pointer and is a hit; a call whose BufferId  *)
(* (hash and size) differs from that of every earlier call is a miss and   *)
(* returns a pointer no earlier call returned; every hit adds one to the   *)
(* hit counter and no entry, every miss one entry and nothing to the hit   *)
(* counter; every call adds one to the lookup counter.                     *)
CacheDeduplicatesByBufferId ==
    /\ \A j \in 1..Len(log) :
          /\ \A i \in 1..(j - 1) :
                log[i].buf = log[j].buf =>
                    log[j].ret = log[i].ret /\ log[j].path = "hit"
          /\ (\A i \in 1..(j - 1) : BufferId(log[i].buf) # BufferId(log[j].buf)) =>
                /\ log[j].path = "miss"
                /\ \A i \in 1..(j - 1) : log[i].ret # log[j].ret
    /\ nBufferCacheHits = Cardinality(LoggedOn("hit"))
    /\ Cardinality(DOMAIN cache) = Cardinality(LoggedOn("miss")) + Cardinality(Inserting)
    /\ nBufferCacheLookups = lookups

\* a buffer was looked up twice and another one, with another id, in between
DeduplicatedAndDistinct ==
    /\ Len(log) = 3
    /\ log[1].buf = log[3].buf /\ log[3].path = "hit" /\ log[3].ret = log[1].ret
    /\ BufferId(log[2].buf) # BufferId(log[1].buf)
    /\ log[2].path = "miss" /\ log[2].ret # log[1].ret
    /\ nBufferCacheHits = 1 /\ nBufferCacheLookups = 3

(* C1, as stated: a call whose buffer has the bytes of an earlier call's   *)
(* buffer returns that call's pointer and is a hit; a call whose content   *)
(* differs from that of every earlier call is a miss and returns a pointer *)
(* that no call with other content returned; the counters as above.        *)
CacheDeduplicatesByContent ==
    /\ \A j \in 1..Len(log) :
          /\ \A i \in 1..(j - 1) :
                log[i].buf = log[j].buf =>
                    log[j].ret = log[i].ret /\ log[j].path = "hit"
          /\ (\A i \in 1..(j - 1) : log[i].buf # log[j].buf) =>
                /\ log[j].path = "miss"
                /\ \A i \in 1..(j - 1) : log[i].ret # log[j].ret
    /\ nBufferCacheHits = Cardinality(LoggedOn("hit"))
    /\ Cardinality(DOMAIN cache) = Cardinality(LoggedOn("miss")) + Cardinality(Inserting)
    /\ nBufferCacheLookups = lookups

\* the threads between lock_guard's constructor and its destructor
InCriticalSection == {t \in Threads : tpc[t] \in {"find", "hit", "miss", "inserted"}}

\* the buffers of the calls made so far, returned or not
BuffersSeen == {log[j].buf : j \in 1..Len(log)} \cup {buf[t] : t \in InFlight}

(* C2: the lookup and the insert are one critical section, so that under   *)
(* every interleaving, of the calls made with one content at most one      *)
(* takes the miss path and all return the same pointer; and when every     *)
(* call so far was made with the same content, one copy is stored, one     *)
(* call missed and all the others hit.                                     *)
ConcurrentLookupOrAddStoresOnce ==
    /\ Cardinality(InCriticalSection) <= 1
    /\ \A b \in Buffers :
          LET made == {j \in 1..Len(log) : log[j].buf = b}
          IN  /\ Cardinality({j \in made : log[j].path = "miss"})
                    + Cardinality({t \in Inserting : buf[t] = b}) <= 1
              /\ \A i, j \in made : log[i].ret = log[j].ret
    /\ Cardinality(BuffersSeen) = 1 =>
          /\ Cardinality(DOMAIN cache) <= 1
          /\ (InFlight = {} /\ ~aborted) =>
                /\ Cardinality(DOMAIN cache) = 1
                /\ Cardinality(LoggedOn("miss")) = 1
                /\ Cardinality(LoggedOn("hit")) = Len(log) - 1

\* three threads were inside LookupOrAdd at once with the same content
ThreeThreadsOneCopy ==
    /\ Len(log) = 3
    /\ InFlight = {}
    /\ Cardinality(BuffersSeen) = 1
    /\ {log[j].thread : j \in 1..3} = Threads
    /\ log[1].inFlight = Threads \ {log[1].thread}
    /\ Cardinality(DOMAIN cache) = 1
    /\ log[1].path = "miss" /\ log[2].path = "hit" /\ log[3].path = "hit"
    /\ log[2].ret = log[1].ret /\ log[3].ret = log[1].ret

\* buffers whose hash and size in bytes are equal
SameKey(a, b) == HashBuffer(a) = HashBuffer(b) /\ Len(a) = Len(b)

\* the first call of the log, up to position j, made with the key of call j
FirstWithKey(j) ==
    CHOOSE i \in 1..j :
        /\ SameKey(log[i].buf, log[j].buf)
        /\ \A h \in 1..(i - 1) : ~SameKey(log[h].buf, log[j].buf)

(* C16: a call is a hit exactly when an earlier call had a buffer of the   *)
(* same hash and size, whatever the bytes, and it returns that call's      *)
(* pointer; a release build never aborts and returns the pointer though    *)
(* the bytes stored differ; a debug build returns no pointer to bytes that *)
(* differ from the buffer's, it aborts in the hit branch instead; buffers  *)
(* of equal hash and different sizes are stored under separate keys.       *)
CacheKeysOnHashAndSize ==
    /\ \A j \in 1..Len(log) :
          LET first == FirstWithKey(j)
          IN  /\ log[j].path = "hit" <=> first < j
              /\ log[j].ret = log[first].ret
              /\ debugBuild => heap[log[j].ret] = log[j].buf
              /\ \A i \in 1..(j - 1) :
                    (Len(log[i].buf) # Len(log[j].buf)
                        /\ HashBuffer(log[i].buf) = HashBuffer(log[j].buf)) =>
                        /\ log[i].ret # log[j].ret
                        /\ BufferId(log[i].buf) \in DOMAIN cache
                        /\ BufferId(log[j].buf) \in DOMAIN cache
                        /\ cache[BufferId(log[i].buf)] # cache[BufferId(log[j].buf)]
    /\ ~debugBuild => ~aborted
    /\ aborted => \E t \in Threads : tpc[t] = "hit" /\ heap[iter[t]] # buf[t]
    /\ \A t \in Threads :
          (debugBuild /\ tpc[t] = "hit" /\ heap[iter[t]] # buf[t]) => ~ENABLED HitReturn(t)

\* a release build returned the pointer to <<1, 2>> for <<2, 1>> and stored
\* <<3>>, of the same hash, apart
CollisionHitAndSizeMiss ==
    /\ ~debugBuild
    /\ Len(log) = 3
    /\ log[1].buf = <<1, 2>> /\ log[2].buf = <<2, 1>> /\ log[3].buf = <<3>>
    /\ log[2].path = "hit" /\ log[2].ret = log[1].ret
    /\ heap[log[2].ret] # log[2].buf
    /\ log[3].path = "miss" /\ log[3].ret # log[1].ret

(* C20, as amended: under every interleaving, the data at the pointer a    *)
(* call returns is, element for element, the buffer of the first call made *)
(* with the same hash and size, which is the call's own buffer whenever no *)
(* buffer of other bytes with that hash and size was stored before; a miss *)
(* stores a copy of its own buffer at an address no earlier call was       *)
(* given, and what later calls pass in changes no stored copy.             *)
ReturnedDataIsFirstStored ==
    \A j \in 1..Len(log) :
        /\ heap[log[j].ret] = log[FirstWithKey(j)].buf
        /\ (\A i \in 1..(j - 1) :
               SameKey(log[i].buf, log[j].buf) => log[i].buf = log[j].buf) =>
               heap[log[j].ret] = log[j].buf
        /\ log[j].path = "miss" =>
               /\ heap[log[j].ret] = log[j].buf
               /\ \A i \in 1..(j - 1) : log[i].ret # log[j].ret

\* three threads were in flight together and each got its own buffer's data
ConcurrentCallersOwnContent ==
    /\ Len(log) = 3
    /\ log[1].inFlight # {} /\ log[2].inFlight # {}
    /\ {log[j].buf : j \in 1..3} = {<<1, 2>>, <<3>>}
    /\ \A j \in 1..3 : heap[log[j].ret] = log[j].buf
    /\ \E j \in 1..3 : log[j].path = "hit"

(* C20, as stated: under every interleaving, the data at the pointer a     *)
(* call returns is, element for element, the buffer the call passed in; a  *)
(* miss stores a copy at an address of the cache's own.                    *)
ReturnedDataIsOwnBuffer ==
    \A j \in 1..Len(log) :
        /\ heap[log[j].ret] = log[j].buf
        /\ log[j].path = "miss" => \A i \in 1..(j - 1) : log[i].ret # log[j].ret

-----------------------------------------------------------------------------
(* BufferCache<int>: BytesUsed and Clear, called while LookupOrAdd calls   *)
(* are made.  Neither takes the mutex.                                     *)

\* at most this many Clear calls are made
MaxClears == 1

\* the pointers stored in the map
Stored == {cache[k] : k \in DOMAIN cache}

\* sum += item.second->capacity() * sizeof(T) over the items in ks; the
\* capacity() of a stored vector is taken to be its size()
RECURSIVE SumBytes(_)
SumBytes(ks) ==
    IF ks = {} THEN 0
    ELSE LET k == CHOOSE x \in ks : TRUE
         IN  Len(heap[cache[k]]) * SizeofT + SumBytes(ks \ {k})

\* BufferCache::BytesUsed()
BytesUsed == SumBytes(DOMAIN cache)

\* size_t n = BytesUsed()
BytesUsedCall ==
    /\ ~aborted
    /\ bytesUsed' = BytesUsed
    /\ bytesUsed' # bytesUsed
    /\ UNCHANGED <<cache, heap, mutexOwner, tpc, buf, id, nBufferCacheLookups,
                   nBufferCacheHits, redundantBufferBytes, debugBuild, aborted,
                   lookups, log, iter, released, clears, quiet>>
    /\ UNCHANGED notCache

\* Clear without the loop of delete_object calls
ClearMapOnly ==
    /\ ~aborted
    /\ clears < MaxClears
    /\ cache' = <<>>
    /\ clears' = clears + 1
    /\ quiet' = (quiet /\ InFlight = {})
    /\ UNCHANGED <<heap, mutexOwner, tpc, buf, id, nBufferCacheLookups,
                   nBufferCacheHits, redundantBufferBytes, debugBuild, aborted,
                   lookups, log, iter, released, bytesUsed>>
    /\ UNCHANGED notCache

\* Clear behind a lock_guard on the mutex of LookupOrAdd
ClearLocked ==
    /\ ~aborted
    /\ clears < MaxClears
    /\ mutexOwner = "free"
    /\ released' = released (+) SetToBag(Stored)
    /\ cache' = <<>>
    /\ clears' = clears + 1
    /\ quiet' = (quiet /\ InFlight = {})
    /\ UNCHANGED <<heap, mutexOwner, tpc, buf, id, nBufferCacheLookups,
                   nBufferCacheHits, redundantBufferBytes, debugBuild, aborted,
                   lookups, log, iter, bytesUsed>>
    /\ UNCHANGED notCache

\* BufferCache::Clear(): alloc.delete_object(item.second) for every item,
\* then cache.clear()
Clear ==
    /\ ~aborted
    /\ clears < MaxClears
    /\ released' = released (+) SetToBag(Stored)
    /\ cache' = <<>>
    /\ clears' = clears + 1
    /\ quiet' = (quiet /\ InFlight = {})
    /\ UNCHANGED <<heap, mutexOwner, tpc, buf, id, nBufferCacheLookups,
                   nBufferCacheHits, redundantBufferBytes, debugBuild, aborted,
                   lookups, log, iter, bytesUsed>>
    /\ UNCHANGED notCache

\* return cache[id]->data() after a Clear took the entry away: operator[]
\* makes an entry holding nullptr, and data() on it ends the process
MissReturnNull(t) ==
    /\ ~aborted
    /\ tpc[t] = "inserted"
    /\ id[t] \notin DOMAIN cache
    /\ aborted' = TRUE
    /\ UNCHANGED <<cache, heap, mutexOwner, tpc, buf, id, nBufferCacheLookups,
                   nBufferCacheHits, redundantBufferBytes, debugBuild, lookups, log,
                   iter, lifecycleVars>>
    /\ UNCHANGED notCache

\* the threads that call LookupOrAdd while BytesUsed and Clear are called
Callers == {"t1", "t2"}

\* the buffers they pass in, of different ids
CallerBuffers == {<<1, 2>>, <<3>>}

\* a release build, in which the DCHECK of the hit branch does not exist
NextCacheLifecycle ==
    \/ \E t \in Callers, b \in CallerBuffers : LookupOrAddCall(t, b)
    \/ \E t \in Callers : Lock(t)
    \/ \E t \in Callers : Find(t)
    \/ \E t \in Callers : HitReturn(t)
    \/ \E t \in Callers : MissInsert(t)
    \/ \E t \in Callers : MissReturn(t)
    \/ \E t \in Callers : MissReturnNull(t)
    \/ BytesUsedCall
    \/ Clear

\* the pointers that calls returned
ReturnedPointers == {log[j].ret : j \in 1..Len(log)}

\* a step that is no Clear keeps every entry, every stored copy and every
\* released pointer
KeepsEntries ==
    /\ DOMAIN cache \subseteq DOMAIN cache'
    /\ \A k \in DOMAIN cache : cache'[k] = cache[k]
    /\ \A q \in DOMAIN heap : q \in DOMAIN heap' /\ heap'[q] = heap[q]
    /\ released' = released

\* a Clear step releases every stored pointer and empties the map
ReleasesAllAtOnce ==
    /\ cache' = <<>>
    /\ \A q \in DOMAIN heap :
          CopiesIn(q, released') = CopiesIn(q, released) + (IF q \in Stored THEN 1 ELSE 0)

(* C17: every step made while no Clear is (LookupOrAdd's steps and         *)
(* BytesUsed) keeps every entry of the map with its pointer, keeps the     *)
(* contents of every stored copy and releases nothing, so that until the   *)
(* first Clear every pointer returned is stored, unreleased and points at  *)
(* the data it was returned for; a Clear releases every stored pointer in  *)
(* one step.                                                               *)
EntriesLiveUntilClear ==
    /\ [](clears = 0 =>
            /\ released = EmptyBag
            /\ ReturnedPointers \subseteq Stored
            /\ \A j \in 1..Len(log) :
                  heap[log[j].ret] = log[FirstWithKey(j)].buf)
    /\ [][IF clears' = clears THEN KeepsEntries ELSE ReleasesAllAtOnce]_vars

\* two buffers were stored, BytesUsed() returned their 12 bytes, then a
\* third call hit, all before any Clear
StoredCountedAndHit ==
    /\ clears = 0
    /\ bytesUsed = 3 * SizeofT
    /\ Cardinality(Stored) = 2
    /\ Len(log) = 3 /\ log[3].path = "hit"

(* C18: a Clear made while no LookupOrAdd is in flight leaves the map      *)
(* empty and BytesUsed() at 0 and releases every stored pointer; while     *)
(* every Clear so far was made so, every vector made is either stored or   *)
(* released exactly once, never both and never twice, and a call is a hit  *)
(* only when an earlier call with its hash and size returned since the     *)
(* latest Clear: the first call after a Clear made with content stored     *)
(* before it is a miss, stores a fresh copy and counts no hit.             *)
ClearReleasesEverything ==
    /\ [](quiet =>
            /\ \A q \in DOMAIN heap :
                  /\ q \in Stored => CopiesIn(q, released) = 0
                  /\ q \notin Stored => CopiesIn(q, released) = 1
            /\ \A j \in 1..Len(log) :
                  LET since == {i \in 1..(j - 1) :
                                   /\ log[i].epoch = log[j].epoch
                                   /\ SameKey(log[i].buf, log[j].buf)}
                  IN  /\ log[j].path = "hit" <=> since # {}
                      /\ since = {} =>
                            /\ \A i \in 1..(j - 1) : log[i].ret # log[j].ret
                            /\ heap[log[j].ret] = log[j].buf
            /\ nBufferCacheHits = Cardinality(LoggedOn("hit")))
    /\ [][(clears' # clears /\ InFlight = {}) =>
             /\ cache' = <<>>
             /\ BytesUsed' = 0
             /\ ReleasesAllAtOnce]_vars

\* a buffer was stored, Clear was called with no call in flight, BytesUsed()
\* returned 0, and the same buffer was looked up again and missed
ClearedThenMissed ==
    /\ quiet /\ clears = 1
    /\ bytesUsed = 0
    /\ Len(log) = 2
    /\ log[1].buf = log[2].buf
    /\ log[1].epoch = 0 /\ log[2].epoch = 1
    /\ log[2].path = "miss" /\ log[2].ret # log[1].ret
    /\ CopiesIn(log[1].ret, released) = 1
    /\ nBufferCacheHits = 0

(* C25: the mutex excludes LookupOrAdd calls from one another and nothing  *)
(* else: at most one thread is between the lock_guard's constructor and    *)
(* its destructor and it owns the mutex, while Clear() can run in every    *)
(* state of a live process, whoever owns the mutex, and BytesUsed() can be *)
(* evaluated in every such state.                                          *)
MutexExcludesLookupsOnly ==
    /\ Cardinality(InCriticalSection) <= 1
    /\ \A t \in InCriticalSection : mutexOwner = t
    /\ (~aborted /\ clears < MaxClears) => ENABLED Clear
    /\ (~aborted /\ BytesUsed # bytesUsed) => ENABLED BytesUsedCall

\* a Clear ran while a caller was between find and return on the hit
\* branch, and that caller's pointer, which an earlier call returned, is
\* released
ReturnedPointerReleased ==
    /\ clears = 1 /\ ~quiet /\ ~aborted
    /\ \E t \in Callers :
          /\ tpc[t] = "hit" /\ mutexOwner = t
          /\ CopiesIn(iter[t], released) = 1
          /\ \E j \in 1..Len(log) : log[j].ret = iter[t] /\ log[j].epoch = 0

-----------------------------------------------------------------------------
(* PixelSampler::StartSequence as a state machine, run on the TestSampler  *)
(* of TEST(PixelSampler, GeneratePixelSamples): Uninitialized, then one    *)
(* (pixel, index) after another.  StartSequence regenerates the per-pixel  *)
(* table when the pixel differs from the last one and resets the cursors   *)
(* in every case; Get1D and Get2D move a cursor.                          *)

\* the reads of one kind modelled per sequence
MaxReads == 1

\* the pixel of a sampler no StartSequence was called on
Uninitialized == <<>>

\* the pixels the test visits: {0, 0} and {1, 0}
Pixels == {<<0, 0>>, <<1, 0>>}

\* the sample indices the test visits
SampleIndices == {0, 1, 4, 10, 11}

\* the StartSequence calls of the test, in order
TestSequence ==
    << <<<<0, 0>>, 0>>, <<<<0, 0>>, 1>>, <<<<0, 0>>, 10>>, <<<<1, 0>>, 4>>,
       <<<<0, 0>>, 11>> >>

\* no run makes more StartSequence calls than the test does
MaxStarts == Len(TestSequence)

\* TestSampler::GeneratePixelSamples: ++calls
GeneratePixelSamples(n) == n + 1

\* TestSampler ts
InitSampler ==
    /\ lastPixel = Uninitialized
    /\ sampleIndex = 0
    /\ cursor1D = 0
    /\ cursor2D = 0
    /\ calls = 0
    /\ starts = <<>>
    /\ array1DOffset = 0
    /\ array2DOffset = 0

\* StartSequence that regenerates the table when the sample index changes too
StartSequenceOnIndexChange(p, index) ==
    LET regenerate == p # lastPixel \/ index # sampleIndex
    IN  /\ Len(starts) < MaxStarts
        /\ calls' = IF regenerate THEN GeneratePixelSamples(calls) ELSE calls
        /\ lastPixel' = p
        /\ sampleIndex' = index
        /\ cursor1D' = 0
        /\ cursor2D' = 0
        /\ array1DOffset' = 0
        /\ array2DOffset' = 0
        /\ starts' = Append(starts, [pixel |-> p, index |-> index,
                                     generated |-> regenerate])
        /\ UNCHANGED notSampler

\* StartSequence that resets the cursors only when it regenerates the table
StartSequenceCursorsKept(p, index) ==
    LET regenerate == p # lastPixel
    IN  /\ Len(starts) < MaxStarts
        /\ calls' = IF regenerate THEN GeneratePixelSamples(calls) ELSE calls
        /\ lastPixel' = p
        /\ sampleIndex' = index
        /\ cursor1D' = (IF regenerate THEN 0 ELSE cursor1D)
        /\ cursor2D' = (IF regenerate THEN 0 ELSE cursor2D)
        /\ array1DOffset' = (IF regenerate THEN 0 ELSE array1DOffset)
        /\ array2DOffset' = (IF regenerate THEN 0 ELSE array2DOffset)
        /\ starts' = Append(starts, [pixel |-> p, index |-> index,
                                     generated |-> regenerate])
        /\ UNCHANGED notSampler

\* ts.StartSequence(p, index)
StartSequence(p, index) ==
    LET regenerate == p # lastPixel
    IN  /\ Len(starts) < MaxStarts
        /\ calls' = IF regenerate THEN GeneratePixelSamples(calls) ELSE calls
        /\ lastPixel' = p
        /\ sampleIndex' = index
        /\ cursor1D' = 0
        /\ cursor2D' = 0
        /\ array1DOffset' = 0
        /\ array2DOffset' = 0
        /\ starts' = Append(starts, [pixel |-> p, index |-> index,
                                     generated |-> regenerate])
        /\ UNCHANGED notSampler

\* Get1D(): the 1D cursor moves on
Get1D ==
    /\ lastPixel # Uninitialized
    /\ cursor1D < MaxReads
    /\ cursor1D' = cursor1D + 1
    /\ UNCHANGED <<lastPixel, sampleIndex, cursor2D, calls, starts,
                   array1DOffset, array2DOffset>>
    /\ UNCHANGED notSampler

\* Get2D(): the 2D cursor moves on
Get2D ==
    /\ lastPixel # Uninitialized
    /\ cursor2D < MaxReads
    /\ cursor2D' = cursor2D + 1
    /\ UNCHANGED <<lastPixel, sampleIndex, cursor1D, calls, starts,
                   array1DOffset, array2DOffset>>
    /\ UNCHANGED notSampler

NextSampler ==
    \/ \E p \in Pixels, index \in SampleIndices : StartSequence(p, index)
    \/ Get1D
    \/ Get2D

\* the StartSequence calls whose pixel is not that of the call before them
PixelTransitions ==
    {j \in 1..Len(starts) : j = 1 \/ starts[j].pixel # starts[j - 1].pixel}

\* the arguments of the StartSequence calls made
StartsMade == [j \in 1..Len(starts) |-> <<starts[j].pixel, starts[j].index>>]

(* C4: a StartSequence call invokes GeneratePixelSamples if and only if it *)
(* is the first call on the sampler or its pixel differs from that of the  *)
(* call before it, so that calls counts the pixel transitions, and the     *)
(* test's sequence of five calls gives calls = 3.                          *)
GeneratePixelSamplesPerPixelTransition ==
    /\ \A j \in 1..Len(starts) : starts[j].generated <=> j \in PixelTransitions
    /\ calls = Cardinality(PixelTransitions)
    /\ StartsMade = TestSequence => calls = 3

\* the test's five calls were made, with samples read in between
TestSequenceVisited ==
    /\ StartsMade = TestSequence
    /\ calls = 3
    /\ cursor1D = MaxReads

-----------------------------------------------------------------------------
(* The sampler of TEST(Sampler, ConsistentValues): StartSequence on one    *)
(* pixel for successive sample indices and on another pixel in between,    *)
(* with Get1D, Get2D, Get1DArray and Get2DArray calls after each.  The     *)
(* per-pixel table is known by the number of the GeneratePixelSamples call *)
(* that wrote it, calls.                                                   *)

\* the sample indices the sequences are started at
ArrayTestIndices == {0, 1}

\* Get1DArray(n): the cursor into the 1D arrays moves on
Get1DArray ==
    /\ lastPixel # Uninitialized
    /\ array1DOffset < MaxReads
    /\ array1DOffset' = array1DOffset + 1
    /\ UNCHANGED <<lastPixel, sampleIndex, cursor1D, cursor2D, calls, starts,
                   array2DOffset>>
    /\ UNCHANGED notSampler

\* Get2DArray(n): the cursor into the 2D arrays moves on
Get2DArray ==
    /\ lastPixel # Uninitialized
    /\ array2DOffset < MaxReads
    /\ array2DOffset' = array2DOffset + 1
    /\ UNCHANGED <<lastPixel, sampleIndex, cursor1D, cursor2D, calls, starts,
                   array1DOffset>>
    /\ UNCHANGED notSampler

NextSamplerArrays ==
    \/ \E p \in Pixels, index \in ArrayTestIndices : StartSequence(p, index)
    \/ Get1D
    \/ Get2D
    \/ Get1DArray
    \/ Get2DArray

-----------------------------------------------------------------------------
(* Generator matrices: MultiplyGenerator, ReverseBits32 and GrayCodeSample *)
(* as TEST(LowDiscrepancy, GeneratorMatrix) and TEST(LowDiscrepancy,       *)
(* GrayCodeSample) call them.  A uint32_t is the set of the positions of   *)
(* its set bits, so that ^ is the symmetric difference; a float sample is  *)
(* the uint32_t rounded to the 24 bits a float holds (times 2^-32, which   *)
(* is exact), kept as the set of the bits of the rounded integer.          *)

\* indices a < 2^MaxIndexBits are multiplied
MaxIndexBits == 5

\* GrayCodeSample is asked for up to 2^MaxLog2Samples samples
MaxLog2Samples == 5

\* x ^ y
Xor(x, y) == (x \ y) \cup (y \ x)

\* ReverseBits32(w)
ReverseBits32(w) == {31 - i : i \in w}

\* the bits of an int a >= 0
IndexBits(a) == {i \in 0..30 : (a \div (2 ^ i)) % 2 = 1}

\* C[i] = 1 << i
IdentityMatrix == [i \in 0..31 |-> {i}]

\* the values of k successive rng.UniformUInt32() calls
RECURSIVE RandomColumns(_, _)
RandomColumns(r, k) ==
    IF k = 0 THEN <<>>
    ELSE <<Uniform32Value(r.state)>> \o RandomColumns(Uniform32(r), k - 1)

\* RNG rng; C[i] = rng.UniformUInt32()
RandomMatrix ==
    LET cols == RandomColumns(DefaultRNG, 32)
    IN  [i \in 0..31 |-> cols[i + 1]]

\* the identity with column 1 a copy of column 0
DuplicateColumnMatrix == [i \in 0..31 |-> IF i = 1 THEN {0} ELSE {i}]

\* the identity with columns 1 and 31 exchanged
SwappedColumnMatrix ==
    [i \in 0..31 |-> IF i = 1 THEN {31} ELSE IF i = 31 THEN {1} ELSE {i}]

\* the matrices passed in
Matrices == {IdentityMatrix, RandomMatrix, DuplicateColumnMatrix, SwappedColumnMatrix}

\* Crev[i] = ReverseBits32(C[i])
ReverseColumns(Cm) == [i \in 0..31 |-> ReverseBits32(Cm[i])]

\* the loop of MultiplyGenerator with | for ^
RECURSIVE MultiplyLoopOr(_, _, _, _)
MultiplyLoopOr(Cm, a, i, v) ==
    IF a = 0 THEN v
    ELSE MultiplyLoopOr(Cm, a \div 2, i + 1, IF a % 2 = 1 THEN v \cup Cm[i] ELSE v)

\* for (i = 0; a != 0; ++i, a >>= 1) if (a & 1) v ^= C[i]
RECURSIVE MultiplyLoop(_, _, _, _)
MultiplyLoop(Cm, a, i, v) ==
    IF a = 0 THEN v
    ELSE MultiplyLoop(Cm, a \div 2, i + 1, IF a % 2 = 1 THEN Xor(v, Cm[i]) ELSE v)

\* MultiplyGenerator(C, a)
MultiplyGenerator(Cm, a) == MultiplyLoop(Cm, a, 0, {})

\* the most significant set bit of w # 0
TopBit(w) == CHOOSE i \in w : \A j \in w : j <= i

\* (float)w for a uint32_t w: the 24 most significant bits from the top bit
\* down are kept, the rest rounds to nearest, ties to even
ToFloat(w) ==
    IF w = {} \/ TopBit(w) <= 23 THEN w
    ELSE LET ulp     == TopBit(w) - 23
             kept    == {i \in w : i >= ulp}
             half    == (ulp - 1) \in w
             sticky  == \E i \in w : i < ulp - 1
             roundUp == half /\ (sticky \/ ulp \in w)
             carryTo == CHOOSE j \in ulp..(TopBit(w) + 1) :
                            j \notin kept /\ \A i \in ulp..(j - 1) : i \in kept
         IN  IF roundUp THEN (kept \ (ulp..(carryTo - 1))) \cup {carryTo} ELSE kept

\* Float u = MultiplyGenerator(C, a) * 2.3283064365386963e-10f
DirectSample(Cm, a) == ToFloat(MultiplyGenerator(Cm, a))

\* CountTrailingZeros(n), n > 0
RECURSIVE CountTrailingZeros(_)
CountTrailingZeros(n) == IF n % 2 = 1 THEN 0 ELSE 1 + CountTrailingZeros(n \div 2)

\* the number of trailing one bits of n
RECURSIVE CountTrailingOnes(_)
CountTrailingOnes(n) == IF n % 2 = 0 THEN 0 ELSE 1 + CountTrailingOnes(n \div 2)

\* no MultiplyGenerator call made yet
NoProduct == [a |-> -1, v |-> {}, vrev |-> {}]

\* uint32_t C[32]; uint32_t Crev[32], before the test writes them
InitGenerator ==
    /\ C = [i \in 0..31 |-> {}]
    /\ Crev = [i \in 0..31 |-> {}]
    /\ filled = FALSE
    /\ product = NoProduct
    /\ gcPc = "idle"
    /\ gcN = 0
    /\ gcI = 0
    /\ gcV = {}
    /\ gcOut = <<>>

\* the test writes C and Crev
Fill(m) ==
    /\ gcPc # "walk"
    /\ C' = m
    /\ Crev' = ReverseColumns(m)
    /\ filled' = TRUE
    /\ product' = NoProduct
    /\ gcPc' = "idle"
    /\ gcN' = 0
    /\ gcI' = 0
    /\ gcV' = {}
    /\ gcOut' = <<>>
    /\ UNCHANGED notGenerator

\* MultiplyGenerator(C, a) and MultiplyGenerator(Crev, a)
Multiply(a) ==
    /\ filled
    /\ gcPc # "walk"
    /\ product' = [a |-> a, v |-> MultiplyGenerator(C, a),
                   vrev |-> MultiplyGenerator(Crev, a)]
    /\ UNCHANGED <<C, Crev, filled, gcPc, gcN, gcI, gcV, gcOut>>
    /\ UNCHANGED notGenerator

\* std::vector<Float> v(2^k, 0); GrayCodeSample(C, 0, &v): uint32_t v = scramble
GrayCodeSample(k) ==
    /\ filled
    /\ gcPc # "walk"
    /\ gcPc' = "walk"
    /\ gcN' = 2 ^ k
    /\ gcI' = 0
    /\ gcV' = {}
    /\ gcOut' = <<>>
    /\ UNCHANGED <<C, Crev, filled, product>>
    /\ UNCHANGED notGenerator

\* GrayCodeStep with the column taken from the trailing ones of i + 1
GrayCodeStepTrailingOnes ==
    /\ gcPc = "walk"
    /\ gcI < gcN
    /\ gcOut' = Append(gcOut, ToFloat(gcV))
    /\ gcV' = Xor(gcV, C[CountTrailingOnes(gcI + 1)])
    /\ gcI' = gcI + 1
    /\ UNCHANGED <<C, Crev, filled, product, gcPc, gcN>>
    /\ UNCHANGED notGenerator

\* one iteration: the sample of the accumulated product is written, then
\* the column of the bit that changes in the Gray code is XORed in
GrayCodeStep ==
    /\ gcPc = "walk"
    /\ gcI < gcN
    /\ gcOut' = Append(gcOut, ToFloat(gcV))
    /\ gcV' = Xor(gcV, C[CountTrailingZeros(gcI + 1)])
    /\ gcI' = gcI + 1
    /\ UNCHANGED <<C, Crev, filled, product, gcPc, gcN>>
    /\ UNCHANGED notGenerator

\* the loop ends
GrayCodeReturn ==
    /\ gcPc = "walk"
    /\ gcI = gcN
    /\ gcPc' = "done"
    /\ UNCHANGED <<C, Crev, filled, product, gcN, gcI, gcV, gcOut>>
    /\ UNCHANGED notGenerator

NextGenerator ==
    \/ \E m \in Matrices : Fill(m)
    \/ \E a \in 0..(2 ^ MaxIndexBits - 1) : Multiply(a)
    \/ \E k \in 0..MaxLog2Samples : GrayCodeSample(k)
    \/ GrayCodeStep
    \/ GrayCodeReturn

\* bit j of the GF(2) product: the parity of the selected columns that hold it
ParityProduct(Cm, a) ==
    {j \in 0..31 : Cardinality({i \in IndexBits(a) : j \in Cm[i]}) % 2 = 1}

(* C9: for every matrix and index, MultiplyGenerator on the bit-reversed   *)
(* columns is the bit reversal of MultiplyGenerator on the columns;        *)
(* MultiplyGenerator is the XOR of the columns that the set bits of a      *)
(* select, and on the identity matrix it is a.                             *)
MultiplyCommutesWithReverseBits ==
    product.a >= 0 =>
        /\ product.vrev = ReverseBits32(product.v)
        /\ product.v = ParityProduct(C, product.a)
        /\ C = IdentityMatrix => product.v = IndexBits(product.a)

\* a product of three or more columns of the random matrix was taken
RandomMatrixMultiplied ==
    /\ C = RandomMatrix
    /\ Cardinality(IndexBits(product.a)) >= 3
    /\ product.v # {}
    /\ product.vrev # product.v
    /\ product.vrev = ReverseBits32(product.v)

\* a ^ b for ints a, b >= 0
RECURSIVE XorInt(_, _)
XorInt(a, b) ==
    IF a = 0 /\ b = 0 THEN 0
    ELSE ((a + b) % 2) + 2 * XorInt(a \div 2, b \div 2)

\* the i-th Gray code, i ^ (i >> 1)
GrayCode(i) == XorInt(i, i \div 2)

\* how often each value occurs in a sequence
BagOfSeq(sq) ==
    [x \in {sq[i] : i \in DOMAIN sq} |-> Cardinality({i \in DOMAIN sq : sq[i] = x})]

\* the samples of direct evaluation, a = 0 .. n - 1
DirectSamples(n) == [i \in 1..n |-> DirectSample(C, i - 1)]

(* C10, as amended: step i of GrayCodeSample writes the sample of          *)
(* MultiplyGenerator(C, i ^ (i >> 1)), and the 2^n samples written are     *)
(* those of direct evaluation for a = 0 .. 2^n - 1, each as often as       *)
(* direct evaluation yields it, in another order.                          *)
GrayCodeSampleSameBag ==
    /\ \A i \in 1..Len(gcOut) : gcOut[i] = DirectSample(C, GrayCode(i - 1))
    /\ gcPc = "done" =>
          /\ Len(gcOut) = gcN
          /\ BagOfSeq(gcOut) = BagOfSeq(DirectSamples(gcN))

\* a walk of 2^MaxLog2Samples samples ended, in an order other than
\* a = 0, 1, .., with samples that the conversion to float rounded
GrayCodeWalkEnded ==
    /\ gcPc = "done"
    /\ gcN = 2 ^ MaxLog2Samples
    /\ gcOut # DirectSamples(gcN)
    /\ \E i \in 1..gcN : gcOut[i] # MultiplyGenerator(C, GrayCode(i - 1))

(* C10, as stated: the samples GrayCodeSample writes are the set of the    *)
(* samples of direct evaluation for a = 0 .. 2^n - 1, 2^n values, each     *)
(* written exactly once.                                                   *)
GrayCodeSampleEachValueOnce ==
    gcPc = "done" =>
        LET direct == {DirectSample(C, a) : a \in 0..(gcN - 1)}
        IN  /\ {gcOut[i] : i \in 1..Len(gcOut)} = direct
            /\ Cardinality(direct) = gcN
            /\ \A x \in direct : Cardinality({i \in 1..Len(gcOut) : gcOut[i] = x}) = 1

-----------------------------------------------------------------------------
(* Distribution1D: the piecewise-constant distribution over Count()        *)
(* buckets and its discrete sampling.  Weights are whole numbers and u is  *)
(* a fraction <<numerator, denominator>>, so that cdf[i] <= u is decided   *)
(* exactly, as cdf[i] * denominator <= numerator * funcInt.                *)

\* distributions of up to this many buckets are constructed
MaxCount == 4

\* u is drawn from the multiples of 1 / UGrid in [0, 1]
UGrid == 8

\* the weights a bucket is given
Weights == {0, 1, 3}

\* the weight sequences of n buckets
WeightSeqs(n) == [0..(n - 1) -> Weights]

\* Distribution1D dist({0.f, 1.f, 0.f, 3.f})
TestWeights == [i \in 0..3 |-> <<0, 1, 0, 3>>[i + 1]]

\* the values of u in [0, 1] that SampleDiscrete is called with: the grid and
\* the two values of the test next to 0.25
Us == {<<k, UGrid>> : k \in 0..UGrid} \cup {<<24999, 100000>>, <<250001, 1000000>>}

\* the running sum: cdf[i] is the weight of the buckets before bucket i
RECURSIVE CumulativeSum(_, _)
CumulativeSum(f, i) == IF i = 0 THEN 0 ELSE CumulativeSum(f, i - 1) + f[i - 1]

\* Distribution1D(f): the weights, their running sums and their total
Distribution1D(f) ==
    LET n == Cardinality(DOMAIN f)
    IN  [func |-> f,
         cdf |-> [i \in 0..n |-> CumulativeSum(f, i)],
         funcInt |-> CumulativeSum(f, n)]

\* Count()
Count(d) == Cardinality(DOMAIN d.func)

\* func[i] / funcInt whatever the total
DiscretePDFUnguarded(d, i) ==
    <<IF i \in DOMAIN d.func THEN d.func[i] ELSE 0, d.funcInt>>

\* DiscretePDF(i) = func[i] / funcInt, as <<numerator, denominator>>
DiscretePDF(d, i) == IF d.funcInt = 0 THEN <<0, 1>> ELSE <<d.func[i], d.funcInt>>

\* whether the cumulative weight through bucket i exceeds u
Exceeds(d, i, u) == d.cdf[i + 1] * u[2] > u[1] * d.funcInt

\* whether the cumulative weight through bucket i reaches u
Reaches(d, i, u) == d.cdf[i + 1] * u[2] >= u[1] * d.funcInt

\* the binary search for the first bucket in lo..hi whose cumulative weight
\* reaches u
RECURSIVE SearchReaches(_, _, _, _)
SearchReaches(d, u, lo, hi) ==
    IF lo >= hi THEN lo
    ELSE LET mid == (lo + hi) \div 2
         IN  IF Reaches(d, mid, u) THEN SearchReaches(d, u, lo, mid)
             ELSE SearchReaches(d, u, mid + 1, hi)

\* the binary search for the first bucket in lo..hi whose cumulative weight
\* exceeds u
RECURSIVE SearchExceeds(_, _, _, _)
SearchExceeds(d, u, lo, hi) ==
    IF lo >= hi THEN lo
    ELSE LET mid == (lo + hi) \div 2
         IN  IF Exceeds(d, mid, u) THEN SearchExceeds(d, u, lo, mid)
             ELSE SearchExceeds(d, u, mid + 1, hi)

\* the last bucket of nonzero weight, which u == 1 maps to
LastNonzero(d) ==
    CHOOSE i \in DOMAIN d.func :
        d.func[i] > 0 /\ \A j \in DOMAIN d.func : j > i => d.func[j] = 0

\* SampleDiscrete(u, &pdf): the bucket and its pdf; a distribution whose
\* total weight is zero gives pdf 0
SampleDiscrete(d, u) ==
    IF d.funcInt = 0
    THEN [u |-> u, index |-> 0, pdf |-> DiscretePDF(d, 0)]
    ELSE LET i == IF u[1] = u[2] THEN LastNonzero(d)
                  ELSE SearchExceeds(d, u, 0, Count(d) - 1)
         IN  [u |-> u, index |-> i, pdf |-> DiscretePDF(d, i)]

NoDistribution == [func |-> <<>>, cdf |-> <<>>, funcInt |-> -1]

NoSample == [u |-> <<0, 1>>, index |-> -1, pdf |-> <<0, 1>>]

\* no distribution constructed yet
InitDistribution ==
    /\ dist = NoDistribution
    /\ sample = NoSample

\* Distribution1D dist(f)
Construct(f) ==
    /\ dist' = Distribution1D(f)
    /\ sample' = NoSample
    /\ UNCHANGED notDistribution

\* dist.SampleDiscrete(u, &pdf)
SampleDiscreteCall(u) ==
    /\ dist # NoDistribution
    /\ sample' = SampleDiscrete(dist, u)
    /\ UNCHANGED dist
    /\ UNCHANGED notDistribution

NextDistribution ==
    \/ \E n \in 0..MaxCount : \E f \in WeightSeqs(n) : Construct(f)
    \/ \E u \in Us : SampleDiscreteCall(u)

\* u as cdf[i] <= u < cdf[i + 1], the half-open interval of bucket i
InBucket(d, i, u) ==
    /\ d.cdf[i] * u[2] <= u[1] * d.funcInt
    /\ u[1] * d.funcInt < d.cdf[i + 1] * u[2]

-----------------------------------------------------------------------------
(* MaxMinDistSampler: its constructor, which rounds the requested sample   *)
(* count in a lambda, hands the result to PixelSampler, and then picks the *)
(* row of CMaxMinDist.  In the constructor's body samplesPerPixel is the   *)
(* constructor's parameter, the count requested; the member that           *)
(* PixelSampler set is hidden by it.                                       *)

\* sizeof(CMaxMinDist) / sizeof(CMaxMinDist[0]), the rows of the table
CMaxMinDistRows == 3

\* the dimensions a sampler is constructed with
MaxDimensions == 1

\* the sample counts requested: up to one more than twice the first count
\* that has no row
Requests == 1..(2 * (2 ^ CMaxMinDistRows) + 1)

\* Log2Int(v): the position of the highest set bit
RECURSIVE Log2Int(_)
Log2Int(v) == IF v <= 1 THEN 0 ELSE 1 + Log2Int(v \div 2)

\* IsPowerOf2(v)
IsPowerOf2(v) == v > 0 /\ 2 ^ Log2Int(v) = v

\* RoundUpPow2(v): the smallest power of two that is at least v
RoundUpPow2(v) == IF IsPowerOf2(v) THEN v ELSE 2 ^ (Log2Int(v) + 1)

\* no sampler constructed
NoSampler ==
    [pc |-> "none", request |-> 0, nSampledDimensions |-> 0, spp |-> 0,
     samplesPerPixel |-> 0, CPixel |-> -1, warnings |-> {}]

InitMaxMin == maxmin = NoSampler

\* MaxMinDistSampler(samplesPerPixel, nSampledDimensions) is called: the
\* lambda is entered with spp = samplesPerPixel
MaxMinDistSamplerCall(n, d) ==
    /\ maxmin.pc \in {"none", "constructed"}
    /\ maxmin' = [NoSampler EXCEPT !.pc = "lambda", !.request = n, !.spp = n,
                                   !.nSampledDimensions = d]
    /\ UNCHANGED notMaxMin

\* the lambda's first if: a count whose Log2Int has no row is replaced by
\* (1 << rows) - 1, with a warning
LambdaClamp ==
    /\ maxmin.pc = "lambda"
    /\ maxmin' =
          IF Log2Int(maxmin.spp) >= CMaxMinDistRows
          THEN [maxmin EXCEPT !.pc = "round",
                              !.spp = (2 ^ CMaxMinDistRows) - 1,
                              !.warnings = @ \cup {"Rounding down"}]
          ELSE [maxmin EXCEPT !.pc = "round"]
    /\ UNCHANGED notMaxMin

\* the lambda's second if and PixelSampler(spp, nSampledDimensions): a count
\* that is no power of two is rounded up, with a warning, and the result
\* becomes the member samplesPerPixel
LambdaRound ==
    /\ maxmin.pc = "round"
    /\ maxmin' =
          IF ~IsPowerOf2(maxmin.spp)
          THEN [maxmin EXCEPT !.pc = "body",
                              !.spp = RoundUpPow2(maxmin.spp),
                              !.samplesPerPixel = RoundUpPow2(maxmin.spp),
                              !.warnings = @ \cup {"rounded up"}]
          ELSE [maxmin EXCEPT !.pc = "body", !.samplesPerPixel = maxmin.spp]
    /\ UNCHANGED notMaxMin

\* the body: int Cindex = Log2Int(samplesPerPixel) of the parameter, and the
\* CHECK on it fails
BodyCheckFails ==
    /\ maxmin.pc = "body"
    /\ ~(Log2Int(maxmin.request) >= 0 /\ Log2Int(maxmin.request) < CMaxMinDistRows)
    /\ maxmin' = [maxmin EXCEPT !.pc = "CHECK fails"]
    /\ UNCHANGED notMaxMin

\* the body: the CHECK passes and CPixel = CMaxMinDist[Cindex]
BodyAssign ==
    /\ maxmin.pc = "body"
    /\ Log2Int(maxmin.request) >= 0 /\ Log2Int(maxmin.request) < CMaxMinDistRows
    /\ maxmin' = [maxmin EXCEPT !.pc = "constructed",
                                !.CPixel = Log2Int(maxmin.request)]
    /\ UNCHANGED notMaxMin

NextMaxMin ==
    \/ \E n \in Requests : \E d \in 0..MaxDimensions : MaxMinDistSamplerCall(n, d)
    \/ LambdaClamp
    \/ LambdaRound
    \/ BodyCheckFails
    \/ BodyAssign

\* the constructor has ended, by returning or by a failed CHECK
ConstructorEnded == maxmin.pc \in {"constructed", "CHECK fails"}

(* C13: a request with floor(log2(request)) >= the rows of the table is    *)
(* warned about, the constructor completes without a failed CHECK,         *)
(* samplesPerPixel is the largest supported count and CPixel is a row of   *)
(* the table.                                                              *)
OversizedRequestRecovered ==
    (ConstructorEnded /\ Log2Int(maxmin.request) >= CMaxMinDistRows) =>
        /\ maxmin.pc = "constructed"
        /\ "Rounding down" \in maxmin.warnings
        /\ maxmin.samplesPerPixel = 2 ^ (CMaxMinDistRows - 1)
        /\ maxmin.CPixel \in 0..(CMaxMinDistRows - 1)

(* C14: for a request n with floor(log2(n)) below the rows of the table,   *)
(* samplesPerPixel is the smallest power of two >= n, the rounding warning *)
(* is given exactly when n is no power of two, and CPixel is the row       *)
(* log2(samplesPerPixel).                                                  *)
RoundingAndTableAgree ==
    (maxmin.pc = "constructed" /\ Log2Int(maxmin.request) < CMaxMinDistRows) =>
        /\ maxmin.samplesPerPixel = RoundUpPow2(maxmin.request)
        /\ ("rounded up" \in maxmin.warnings) <=> ~IsPowerOf2(maxmin.request)
        /\ maxmin.CPixel = Log2Int(maxmin.samplesPerPixel)

-----------------------------------------------------------------------------
(* RNG::Advance with deltas of either sign and RNG::operator- on a pair of *)
(* generators of one stream whose states are any two 64-bit values: every  *)
(* state is one that Advance reaches from every other.                     *)

\* at most this many Advance calls are made on a pair
MaxJumps == 2

\* 0xffffffffffffffff
U64Max == <<255, 255, 255, 255, 255, 255, 255, 255>>

\* the states the pair is set up in
PairStates == {U64Zero, U64Max, PCG32_DEFAULT_STATE}

\* the odd values of inc the pair is set up with
PairIncs == {U64One, PCG32_DEFAULT_STREAM}

\* the deltas Advance is called with, each with its negative
JumpDeltas == {1, -1, 10000, -10000}

\* e + k modulo 2^64 for an int64_t k; -k is k times 2^64 - 1
Shifted64(e, k) ==
    IF k >= 0 THEN Add64(e, NatToLimbs(k, 8))
    ELSE Add64(e, Mul64(NatToLimbs(-k, 8), U64Max))

\* RNG a, b: both default-constructed
InitJump ==
    /\ jumpA = DefaultRNG
    /\ jumpB = DefaultRNG
    /\ jumpOrig = DefaultRNG
    /\ jumpTotal = U64Zero
    /\ jumps = 0
    /\ jumpDiff = NoDifference

\* a and b on the stream of inc, in the states sa and sb
PlacePair(sa, sb, inc) ==
    /\ jumpDiff.result # "CHECK_EQ fails"
    /\ jumpA' = [state |-> sa, inc |-> inc]
    /\ jumpB' = [state |-> sb, inc |-> inc]
    /\ jumpOrig' = jumpA'
    /\ jumpTotal' = U64Zero
    /\ jumps' = 0
    /\ jumpDiff' = NoDifference
    /\ UNCHANGED notJump

\* a.Advance(idelta)
JumpA(idelta) ==
    /\ jumpDiff.result # "CHECK_EQ fails"
    /\ jumps < MaxJumps
    /\ jumpA' = Advance(jumpA, idelta)
    /\ jumpTotal' = Shifted64(jumpTotal, idelta)
    /\ jumps' = jumps + 1
    /\ jumpDiff' = NoDifference
    /\ UNCHANGED <<jumpB, jumpOrig>>
    /\ UNCHANGED notJump

\* a - b
SubtractPair ==
    /\ jumpDiff = NoDifference
    /\ jumpDiff' = [inc |-> jumpA.inc, otherInc |-> jumpB.inc] @@ Difference(jumpA, jumpB)
    /\ UNCHANGED <<jumpA, jumpB, jumpOrig, jumpTotal, jumps>>
    /\ UNCHANGED notJump

NextJump ==
    \/ \E sa \in PairStates, sb \in PairStates, inc \in PairIncs : PlacePair(sa, sb, inc)
    \/ \E k \in JumpDeltas : JumpA(k)
    \/ SubtractPair

(* C23: after Advance calls with deltas of either sign, a is in the state  *)
(* that one Advance by the sum of the deltas modulo 2^64 (a negative delta *)
(* -k counting as 2^64 - k) reaches from where it started; when the deltas *)
(* sum to 0, as for Advance(k) then Advance(-k), that is the state it      *)
(* started in.                                                             *)
AdvanceNegativeIsTwosComplement ==
    /\ jumpA = AdvanceBy(jumpOrig, jumpTotal)
    /\ jumpTotal = U64Zero => jumpA = jumpOrig
    /\ jumpA.inc = jumpOrig.inc

\* a was advanced by 10000 and then by -10000
AdvancedThereAndBack ==
    /\ jumps = 2
    /\ jumpTotal = U64Zero
    /\ jumpA = jumpOrig
    /\ Advance(jumpOrig, 10000) # jumpOrig
    /\ Advance(Advance(jumpOrig, 10000), -1) # jumpOrig
    /\ jumpOrig.state = U64Max

(* C24: a - b on generators of one (odd) inc, whatever their states,       *)
(* returns after at most 64 iterations of its loop, no CHECK_EQ failing,   *)
(* and b advanced by the distance returned is in the state of a.           *)
DifferenceTerminates ==
    jumpDiff # NoDifference =>
        /\ jumpDiff.result = "returns"
        /\ jumpDiff.iterations <= 64
        /\ AdvanceBy(jumpB, jumpDiff.distance).state = jumpA.state
        /\ Bit64(jumpA.inc, 0) = 1 /\ jumpA.inc = jumpB.inc

\* a - b returned a distance of 2^63 or more, found in the 64th iteration
DistanceUsesTopBit ==
    /\ jumpDiff.result = "returns"
    /\ jumpDiff.iterations = 64
    /\ Bit64(jumpDiff.distance, 63) = 1
    /\ jumpA.state # jumpB.state

-----------------------------------------------------------------------------
(* The process-wide buffer caches: six static pointers that               *)
(* InitBufferCaches sets, that the TriangleMesh constructor looks buffers  *)
(* up through, and whose objects FreeBufferCaches measures and clears.     *)

\* InitBufferCaches and FreeBufferCaches calls modelled
MaxSceneCalls == 3

\* LookupOrAdd calls modelled between two of them
MaxSceneLookups == 1

\* static BufferCache<...> *indexBufferCache, ..., *faceIndexBufferCache
CacheNames ==
    {"indexBufferCache", "pBufferCache", "nBufferCache", "uvBufferCache",
     "sBufferCache", "faceIndexBufferCache"}

\* the value of a static pointer nothing was assigned to
nullptr == 0

\* capacity() * sizeof(T) of the buffers the meshes hand in
SceneBufferBytes == {12, 24}

\* sum += ... over a set of byte counts
RECURSIVE SumOfBytes(_)
SumOfBytes(bs) ==
    IF bs = {} THEN 0
    ELSE LET b == CHOOSE x \in bs : TRUE IN b + SumOfBytes(bs \ {b})

\* cache->BytesUsed() of the object one static pointer points at
CacheBytesUsed(c) == SumOfBytes(cacheBytes[c])

InitScene ==
    /\ bufferCaches = [c \in CacheNames |-> nullptr]
    /\ cacheBytes = [c \in CacheNames |-> {}]
    /\ meshBytes = [c \in CacheNames |-> 0]
    /\ sceneFatal = FALSE
    /\ sceneCalls = <<>>

\* CHECK(indexBufferCache == nullptr)
CheckPasses == bufferCaches["indexBufferCache"] = nullptr

\* the number of the objects alloc.new_object made so far, as their address
ObjectsMade == Cardinality({j \in 1..Len(sceneCalls) : sceneCalls[j] = "Init"})

\* InitBufferCaches(alloc): the CHECK, then six new_object calls
InitBufferCaches ==
    /\ ~sceneFatal
    /\ Len(sceneCalls) < MaxSceneCalls
    /\ IF CheckPasses
       THEN /\ bufferCaches' = [c \in CacheNames |-> ObjectsMade + 1]
            /\ cacheBytes' = [c \in CacheNames |-> {}]
            /\ sceneCalls' = Append(sceneCalls, "Init")
            /\ UNCHANGED sceneFatal
       ELSE /\ sceneFatal' = TRUE
            /\ sceneCalls' = Append(sceneCalls, "Init fails")
            /\ UNCHANGED <<bufferCaches, cacheBytes>>
    /\ UNCHANGED meshBytes
    /\ UNCHANGED notScene

\* FreeBufferCaches(), called on caches that InitBufferCaches made: for each
\* cache, mesh...Bytes += cache->BytesUsed(); cache->Clear()
FreeBufferCaches ==
    /\ ~sceneFatal
    /\ Len(sceneCalls) < MaxSceneCalls
    /\ \A c \in CacheNames : bufferCaches[c] # nullptr
    /\ meshBytes' = [c \in CacheNames |-> meshBytes[c] + CacheBytesUsed(c)]
    /\ cacheBytes' = [c \in CacheNames |-> {}]
    /\ sceneCalls' = Append(sceneCalls, "Free")
    /\ UNCHANGED <<bufferCaches, sceneFatal>>
    /\ UNCHANGED notScene

\* the buffers stored in all caches
SceneStored == {<<c, b>> \in CacheNames \X SceneBufferBytes : b \in cacheBytes[c]}

\* xBufferCache->LookupOrAdd(buffer) of the TriangleMesh constructor: the
\* buffer is stored unless the cache has it
SceneLookupOrAdd(c, b) ==
    /\ ~sceneFatal
    /\ bufferCaches[c] # nullptr
    /\ Cardinality(SceneStored) < MaxSceneLookups
    /\ b \notin cacheBytes[c]
    /\ cacheBytes' = [cacheBytes EXCEPT ![c] = @ \cup {b}]
    /\ UNCHANGED <<bufferCaches, meshBytes, sceneFatal, sceneCalls>>
    /\ UNCHANGED notScene

NextScene ==
    \/ InitBufferCaches
    \/ \E c \in CacheNames, b \in SceneBufferBytes : SceneLookupOrAdd(c, b)
    \/ FreeBufferCaches

\* whether the caches were initialised before call j
InitialisedBefore(j) == \E i \in 1..(j - 1) : sceneCalls[i] = "Init"

(* C26: InitBufferCaches succeeds exactly when the caches are              *)
(* uninitialised, and after FreeBufferCaches the caches are in a state     *)
(* from which InitBufferCaches succeeds again: every InitBufferCaches      *)
(* call that follows a FreeBufferCaches call passes its CHECK.             *)
LifecycleRepeats ==
    /\ sceneFatal <=> (\E j \in 1..Len(sceneCalls) : sceneCalls[j] = "Init fails")
    /\ \A j \in 1..Len(sceneCalls) :
          /\ (j = 1 \/ (j > 1 /\ sceneCalls[j - 1] = "Free")) =>
                sceneCalls[j] # "Init fails"
          /\ (j > 1 /\ sceneCalls[j - 1] = "Init") => sceneCalls[j] # "Init"
    /\ (sceneCalls # <<>> /\ sceneCalls[Len(sceneCalls)] = "Free") => CheckPasses

-----------------------------------------------------------------------------
(* HashMap: an open-addressed table of optional <key, value> pairs with    *)
(* quadratic probing.  A slot is NoEntry or <<key, value>>; slot offset is *)
(* table[offset + 1].                                                      *)

\* the keys modelled: enough for Grow to run twice, 8 -> 64 -> 128 slots
MaxKeys == 23

\* Insert calls modelled that give a stored key another value
MaxChanged == 1

\* Clear calls modelled
MaxHashClears == 1

\* the most entries of a map that Clear is modelled on
MaxClearedSize == 3

\* the keys inserted in any order; the others follow in increasing order
AnyOrderKeys == {0, 1, 2}

HashKeys == 0..(MaxKeys - 1)

\* the value a key is first inserted with, and the one it is changed to
HashValues == {1, 2}

\* Hash()(key): every key collides with every other in a table of 8 and of
\* 64 slots, and with every second one in a table of 128
Hash(key) == 64 * key

\* the keys HasKey is called with
ReadKeys == {0, 2, MaxKeys - 1}

\* an optional without a value
NoEntry == <<>>

\* a & b on naturals
RECURSIVE BitAnd(_, _)
BitAnd(a, b) ==
    IF a = 0 \/ b = 0 THEN 0
    ELSE (a % 2) * (b % 2) + 2 * BitAnd(a \div 2, b \div 2)

\* x & (capacity - 1) in size_t: capacity 0 makes the mask 2^64 - 1
AndMask(x, capacity) == IF capacity = 0 THEN x ELSE BitAnd(x, capacity - 1)

\* (baseOffset + nProbes / 2 + nProbes * nProbes / 2) & (capacity() - 1)
ProbeOffset(baseOffset, nProbes, capacity) ==
    AndMask(baseOffset + nProbes \div 2 + (nProbes * nProbes) \div 2, capacity)

\* the loop of FindOffset from nProbes on.  The offsets repeat after
\* 2 * capacity probes, so a loop that found no slot by then finds none.
RECURSIVE FindOffsetLoop(_, _, _, _)
FindOffsetLoop(t, key, baseOffset, nProbes) ==
    LET offset == ProbeOffset(baseOffset, nProbes, Len(t))
    IN  IF offset >= Len(t)
        THEN [outcome |-> "outside", offset |-> offset, nProbes |-> nProbes]
        ELSE IF t[offset + 1] = NoEntry \/ t[offset + 1][1] = key
        THEN [outcome |-> "returns", offset |-> offset, nProbes |-> nProbes]
        ELSE IF nProbes + 1 >= 2 * Len(t)
        THEN [outcome |-> "never returns", offset |-> offset, nProbes |-> nProbes]
        ELSE FindOffsetLoop(t, key, baseOffset, nProbes + 1)

\* HashMap::FindOffset(key) on table t
FindOffset(t, key) == FindOffsetLoop(t, key, AndMask(Hash(key), Len(t)), 0)

\* the inner loop of Grow for one entry: the first probed slot of newTable
\* that has no value
RECURSIVE GrowProbe(_, _, _)
GrowProbe(newTable, baseOffset, nProbes) ==
    LET offset == ProbeOffset(baseOffset, nProbes, Len(newTable))
    IN  IF newTable[offset + 1] = NoEntry
        THEN [outcome |-> "returns", offset |-> offset, nProbes |-> nProbes]
        ELSE IF nProbes + 1 >= 2 * Len(newTable)
        THEN [outcome |-> "never returns", offset |-> offset, nProbes |-> nProbes]
        ELSE GrowProbe(newTable, baseOffset, nProbes + 1)

\* the outer loop of Grow from slot i on: [table, the most probes one entry
\* took, or -1 when an entry found no slot]
RECURSIVE GrowLoop(_, _, _, _)
GrowLoop(t, newTable, i, most) ==
    IF i >= Len(t) THEN [table |-> newTable, nProbes |-> most]
    ELSE IF t[i + 1] = NoEntry THEN GrowLoop(t, newTable, i + 1, most)
    ELSE LET p == GrowProbe(newTable, AndMask(Hash(t[i + 1][1]), Len(newTable)), 0)
         IN  IF p.outcome = "returns"
             THEN GrowLoop(t, [newTable EXCEPT ![p.offset + 1] = t[i + 1]], i + 1,
                           IF p.nProbes > most THEN p.nProbes ELSE most)
             ELSE [table |-> newTable, nProbes |-> -1]

\* std::max<size_t>(64, 2 * currentCapacity)
NewCapacity(currentCapacity) ==
    IF 2 * currentCapacity > 64 THEN 2 * currentCapacity ELSE 64

\* HashMap::Grow()
Grow(t) == GrowLoop(t, [i \in 1..NewCapacity(Len(t)) |-> NoEntry], 0, 0)

\* a table that is never grown
NeverGrows(n, capacity) == FALSE

\* 3 * ++nStored > capacity(), n being nStored after the increment
NeedsGrow(n, capacity) == 3 * n > capacity

\* HashMap::size()
HashMapSize == nStored

\* HashMap::capacity()
HashMapCapacity == Len(table)

\* the keys that have a slot
StoredKeys == {table[i][1] : i \in {j \in 1..Len(table) : table[j] # NoEntry}}

\* HashMap(Allocator alloc) : table(8, alloc)
InitHashMap ==
    /\ table = [i \in 1..8 |-> NoEntry]
    /\ nStored = 0
    /\ hmState = "ready"
    /\ hmOutside = FALSE
    /\ hmLast = [call |-> "HashMap", key |-> 0, result |-> 0, nProbes |-> 0]
    /\ hmGrows = 0
    /\ hmChanged = 0
    /\ hmClears = 0

\* the keys an Insert call is modelled with: the stored ones of
\* AnyOrderKeys, to change their value, and the ones not stored, after a
\* Clear those of AnyOrderKeys only
Insertable ==
    LET stored == StoredKeys
    IN  (stored \cap AnyOrderKeys) \cup
        {k \in HashKeys \ stored :
            k \in AnyOrderKeys \/ (hmClears = 0 /\ \A j \in 0..(k - 1) : j \in stored)}

\* the calls made with a table access outside the table: the value read
\* there is arbitrary, and the write of Insert lands outside the table
OutsideOutcomes == {"crashes", "reads no value", "reads the key"}

\* HashMap::Insert(key, value), for a key of Insertable: a stored key is
\* given the value 2, one not stored the value 1
Insert(key, value) ==
    /\ hmState = "ready"
    /\ value = 2 => hmChanged < MaxChanged
    /\ (value = 2) = (key \in StoredKeys)
    /\ LET f == FindOffset(table, key)
       IN  CASE f.outcome = "never returns" ->
                   /\ hmState' = "FindOffset never returns"
                   /\ hmLast' = [call |-> "Insert", key |-> key, result |-> value,
                                 nProbes |-> f.nProbes]
                   /\ UNCHANGED <<table, nStored, hmOutside, hmGrows, hmChanged>>
             [] f.outcome = "outside" ->
                   \E o \in OutsideOutcomes :
                       /\ hmOutside' = TRUE
                       /\ hmLast' = [call |-> "Insert", key |-> key, result |-> value,
                                     nProbes |-> f.nProbes]
                       /\ IF o = "reads no value"
                          THEN \* 3 * ++nStored > capacity() holds: Grow, then
                               \* FindOffset in the grown table
                               LET g == Grow(table)
                                   f2 == FindOffset(g.table, key)
                               IN  /\ table' = [g.table EXCEPT ![f2.offset + 1] =
                                                    <<key, value>>]
                                   /\ nStored' = nStored + 1
                                   /\ hmGrows' = hmGrows + 1
                                   /\ UNCHANGED <<hmState, hmChanged>>
                          ELSE /\ hmState' = IF o = "crashes" THEN "crashed"
                                             ELSE "wrote outside the table"
                               /\ UNCHANGED <<table, nStored, hmGrows, hmChanged>>
             [] f.outcome = "returns" /\ table[f.offset + 1] # NoEntry ->
                   /\ table' = [table EXCEPT ![f.offset + 1] = <<key, value>>]
                   /\ hmChanged' = hmChanged + 1
                   /\ hmLast' = [call |-> "Insert", key |-> key, result |-> value,
                                 nProbes |-> f.nProbes]
                   /\ UNCHANGED <<nStored, hmState, hmOutside, hmGrows>>
             [] f.outcome = "returns" /\ table[f.offset + 1] = NoEntry
                  /\ ~NeedsGrow(nStored + 1, Len(table)) ->
                   /\ table' = [table EXCEPT ![f.offset + 1] = <<key, value>>]
                   /\ nStored' = nStored + 1
                   /\ hmLast' = [call |-> "Insert", key |-> key, result |-> value,
                                 nProbes |-> f.nProbes]
                   /\ UNCHANGED <<hmState, hmOutside, hmGrows, hmChanged>>
             [] f.outcome = "returns" /\ table[f.offset + 1] = NoEntry
                  /\ NeedsGrow(nStored + 1, Len(table)) ->
                   LET g == Grow(table)
                       f2 == FindOffset(g.table, key)
                   IN  /\ nStored' = nStored + 1
                       /\ hmGrows' = hmGrows + 1
                       /\ IF g.nProbes < 0
                          THEN /\ hmState' = "Grow never returns"
                               /\ hmLast' = [call |-> "Insert", key |-> key,
                                             result |-> value, nProbes |-> 0]
                               /\ UNCHANGED table
                          ELSE IF f2.outcome # "returns"
                          THEN /\ hmState' = "FindOffset never returns"
                               /\ hmLast' = [call |-> "Insert", key |-> key,
                                             result |-> value, nProbes |-> f2.nProbes]
                               /\ table' = g.table
                          ELSE /\ table' = [g.table EXCEPT ![f2.offset + 1] =
                                                <<key, value>>]
                               /\ hmLast' = [call |-> "Insert", key |-> key,
                                             result |-> value,
                                             nProbes |-> IF g.nProbes > f2.nProbes
                                                         THEN g.nProbes ELSE f2.nProbes]
                               /\ UNCHANGED hmState
                       /\ UNCHANGED <<hmOutside, hmChanged>>
    /\ UNCHANGED hmClears
    /\ UNCHANGED notHashMap

\* HashMap::HasKey(key): table[FindOffset(key)].has_value()
HasKey(key) ==
    /\ hmState = "ready"
    /\ hmLast.call # "HasKey"
    /\ LET f == FindOffset(table, key)
       IN  CASE f.outcome = "returns" ->
                   /\ hmLast' = [call |-> "HasKey", key |-> key,
                                 result |-> table[f.offset + 1] # NoEntry,
                                 nProbes |-> f.nProbes]
                   /\ UNCHANGED <<hmState, hmOutside>>
             [] f.outcome = "never returns" ->
                   /\ hmState' = "FindOffset never returns"
                   /\ hmLast' = [call |-> "HasKey", key |-> key, result |-> FALSE,
                                 nProbes |-> f.nProbes]
                   /\ UNCHANGED hmOutside
             [] f.outcome = "outside" ->
                   \E o \in OutsideOutcomes :
                       /\ hmOutside' = TRUE
                       /\ hmState' = IF o = "crashes" THEN "crashed" ELSE hmState
                       /\ hmLast' = [call |-> "HasKey", key |-> key,
                                     result |-> (o = "reads the key"),
                                     nProbes |-> f.nProbes]
    /\ UNCHANGED <<table, nStored, hmGrows, hmChanged, hmClears>>
    /\ UNCHANGED notHashMap

\* HashMap::Clear(): table.clear()
HashMapClear ==
    /\ hmState = "ready"
    /\ hmClears < MaxHashClears
    /\ nStored <= MaxClearedSize
    /\ table' = <<>>
    /\ hmClears' = hmClears + 1
    /\ hmLast' = [call |-> "Clear", key |-> 0, result |-> 0, nProbes |-> 0]
    /\ UNCHANGED <<nStored, hmState, hmOutside, hmGrows, hmChanged>>
    /\ UNCHANGED notHashMap

\* the calls that a map nobody clears gets
NextHashMapInserts ==
    \/ \E key \in Insertable, value \in HashValues : Insert(key, value)
    \/ \E key \in ReadKeys : HasKey(key)

NextHashMap ==
    \/ \E key \in Insertable, value \in HashValues : Insert(key, value)
    \/ \E key \in ReadKeys : HasKey(key)
    \/ HashMapClear

\* HashMap::begin() == HashMap::end(): no slot of the table has a value
BeginIsEnd == \A i \in 1..Len(table) : table[i] = NoEntry

(* C28: no call accesses the table outside its bounds or fails to return;  *)
(* after Clear(), size() == 0, begin() == end() and for every key          *)
(* FindOffset returns a slot of the table that has no value, so that       *)
(* HasKey is false; and after an Insert(k, v) that follows a Clear,        *)
(* size() is the number of stored keys and the slot FindOffset returns for *)
(* k holds <<k, v>>.                                                      *)
ClearLeavesUsableEmptyMap ==
    /\ hmState = "ready" /\ ~hmOutside
    /\ hmLast.call = "Clear" =>
          /\ HashMapSize = 0
          /\ BeginIsEnd
          /\ \A key \in HashKeys :
                LET f == FindOffset(table, key)
                IN  f.outcome = "returns" /\ table[f.offset + 1] = NoEntry
    /\ (hmClears > 0 /\ hmLast.call = "Insert") =>
          /\ HashMapSize = Cardinality(StoredKeys)
          /\ LET f == FindOffset(table, hmLast.key)
              IN  /\ f.outcome = "returns"
                  /\ table[f.offset + 1] = <<hmLast.key, hmLast.result>>

\* whether n is a power of two
IsPowerOfTwo(n) == n > 0 /\ BitAnd(n, n - 1) = 0

(* C27: in every state that Insert calls reach from an empty HashMap,      *)
(* 3 * size() <= capacity(), the capacity is a power of two, size() is the *)
(* number of slots with a value, no call failed to return or accessed the  *)
(* table outside its bounds, and for every key, stored or not, FindOffset  *)
(* returns, within 2 * capacity() probes, a slot that is empty or holds    *)
(* the key; Grow re-inserted every entry.                                  *)
ProbingTerminates ==
    /\ hmState = "ready" /\ ~hmOutside
    /\ 3 * HashMapSize <= HashMapCapacity
    /\ IsPowerOfTwo(HashMapCapacity)
    /\ HashMapSize = Cardinality({i \in 1..Len(table) : table[i] # NoEntry})
    /\ HashMapSize = Cardinality(StoredKeys)
    /\ \A key \in HashKeys :
          LET f == FindOffset(table, key)
          IN  /\ f.outcome = "returns"
              /\ f.offset < HashMapCapacity
              /\ f.nProbes < 2 * HashMapCapacity
              /\ IF key \in StoredKeys THEN table[f.offset + 1][1] = key
                 ELSE table[f.offset + 1] = NoEntry

\* the table grew from 8 slots to 64 and then to 128, and an Insert of the
\* 22nd key, the one that grew it, needed several probes for an entry
GrownTwiceAndProbed ==
    /\ hmGrows = 2 /\ HashMapCapacity = 128
    /\ hmLast.call = "Insert" /\ hmLast.nProbes >= 4
    /\ HashMapSize = 22

-----------------------------------------------------------------------------
(* InlinedVector<T, N>: N elements of inline storage, a heap block beyond. *)

\* the largest size modelled
MaxVectorSize == 4

\* the template parameter N
InlineN == 2

\* the values pushed; T{} is 0
ElementValues == {1, 2}

\* InlinedVector::capacity(): ptr ? nAlloc : N
VectorCapacity == IF ivPtr # nullptr THEN ivNAlloc ELSE InlineN

\* InlinedVector::reserve(n): [ptr, nAlloc] after it; the elements move
\* with their values
Reserve(n) ==
    IF VectorCapacity >= n THEN [ptr |-> ivPtr, nAlloc |-> ivNAlloc]
    ELSE [ptr |-> ivPtr + 1, nAlloc |-> n]

\* InlinedVector(const Allocator &alloc = {})
InitInlinedVector ==
    /\ ivElems = <<>>
    /\ ivPtr = nullptr
    /\ ivNAlloc = 0
    /\ ivNStored = 0
    /\ ivState = "ready"
    /\ ivLast = [call |-> "InlinedVector", n |-> 0, before |-> <<>>, destroyed |-> {}]

\* InlinedVector::push_back(value)
PushBack(value) ==
    /\ ivState = "ready"
    /\ ivNStored < MaxVectorSize
    /\ LET r == IF ivNStored = VectorCapacity THEN Reserve(2 * VectorCapacity)
                ELSE [ptr |-> ivPtr, nAlloc |-> ivNAlloc]
       IN  /\ ivPtr' = r.ptr
           /\ ivNAlloc' = r.nAlloc
    /\ ivElems' = Append(ivElems, value)
    /\ ivNStored' = ivNStored + 1
    /\ ivLast' = [call |-> "push_back", n |-> value, before |-> ivElems,
                  destroyed |-> {}]
    /\ UNCHANGED ivState
    /\ UNCHANGED notInlinedVector

\* how a resize(n) with n < size() ends.  Its loop for (i = n; n < size();
\* ++i) destroys begin()[i] under a condition that its body never changes:
\* it runs on past the last element and past the storage, until the process
\* crashes, if it does; a build that removes the loop returns.
ShrinkOutcomes == {"never returns", "crashed", "ready"}

\* InlinedVector::resize(n)
Resize(n) ==
    /\ ivState = "ready"
    /\ IF n < ivNStored
       THEN \E o \in ShrinkOutcomes :
                /\ ivState' = o
                /\ ivLast' = [call |-> "resize", n |-> n, before |-> ivElems,
                              destroyed |->
                                  IF o = "ready" THEN {}
                                  ELSE n..(VectorCapacity - 1)]
                /\ IF o = "ready"
                   THEN /\ ivElems' = SubSeq(ivElems, 1, n)
                        /\ ivNStored' = n
                   ELSE UNCHANGED <<ivElems, ivNStored>>
                /\ UNCHANGED <<ivPtr, ivNAlloc>>
       ELSE IF n > ivNStored
       THEN /\ ivPtr' = Reserve(n).ptr
            /\ ivNAlloc' = Reserve(n).nAlloc
            /\ ivElems' = ivElems \o [i \in 1..(n - ivNStored) |-> 0]
            /\ ivNStored' = n
            /\ ivLast' = [call |-> "resize", n |-> n, before |-> ivElems,
                          destroyed |-> {}]
            /\ UNCHANGED ivState
       ELSE /\ ivNStored' = n
            /\ ivLast' = [call |-> "resize", n |-> n, before |-> ivElems,
                          destroyed |-> {}]
            /\ UNCHANGED <<ivElems, ivPtr, ivNAlloc, ivState>>
    /\ UNCHANGED notInlinedVector

NextInlinedVector ==
    \/ \E value \in ElementValues : PushBack(value)
    \/ \E n \in 0..MaxVectorSize : Resize(n)

(* C29: resize(n) returns and leaves size() == n: for n < size() it        *)
(* destroys exactly the elements n .. size() - 1 and keeps the elements    *)
(* before them; for n > size() it keeps the elements and constructs T{} at *)
(* size() .. n - 1; for n == size() it changes nothing.                    *)
ResizeLeavesSizeN ==
    ivLast.call = "resize" =>
        LET was == Len(ivLast.before)
            n == ivLast.n
        IN  /\ ivState = "ready"
            /\ ivNStored = n /\ Len(ivElems) = n
            /\ VectorCapacity >= n
            /\ \A i \in 1..n : ivElems[i] = IF i <= was THEN ivLast.before[i] ELSE 0
            /\ ivLast.destroyed = IF n < was THEN (n..(was - 1)) ELSE {}

-----------------------------------------------------------------------------
(* Array2D: an extent, an allocator and a block of extent.Area() elements. *)
(* Two arrays a and b are constructed, a = std::move(b) is made, and the   *)
(* two are destroyed.                                                      *)

\* move assignments modelled
MaxMoves == 1

ArrayNames == {"a", "b"}

\* the Bounds2i extents the arrays are constructed with
Extents ==
    {[pMin |-> <<0, 0>>, pMax |-> <<1, 1>>], [pMin |-> <<0, 0>>, pMax |-> <<2, 1>>],
     [pMin |-> <<0, 0>>, pMax |-> <<1, 2>>]}

\* the memory resources of the allocators
Allocators == {1, 2}

\* the values T def the arrays are filled with
Defs == {1, 2}

\* an object not constructed yet, and one whose destructor ran
NoArray == [made |-> "not constructed"]

Destroyed == [made |-> "destroyed"]

\* Bounds2i::Area()
Area(extent) ==
    (extent.pMax[1] - extent.pMin[1]) * (extent.pMax[2] - extent.pMin[2])

\* whether x is an object between its constructor and its destructor
Live(x) == arrays[x].made = "live"

\* allocator.allocate_object<T>(n): a block no call returned before
NewBlock == Cardinality(DOMAIN a2Blocks) + 1

InitArray2D ==
    /\ arrays = [x \in ArrayNames |-> NoArray]
    /\ a2Blocks = <<>>
    /\ a2State = "ready"
    /\ a2Moves = 0
    /\ a2Last = [call |-> "none"]

\* Array2D x(extent, def, allocator)
Array2DConstruct(x, extent, def, allocator) ==
    /\ a2State = "ready"
    /\ arrays[x].made = "not constructed"
    /\ arrays' = [arrays EXCEPT ![x] =
                     [made |-> "live", extent |-> extent, allocator |-> allocator,
                      values |-> NewBlock]]
    /\ a2Blocks' = [p \in DOMAIN a2Blocks \cup {NewBlock} |->
                       IF p = NewBlock
                       THEN [allocator |-> allocator,
                             elems |-> [i \in 1..Area(extent) |-> def],
                             deallocatedWith |-> -1]
                       ELSE a2Blocks[p]]
    /\ a2Last' = [call |-> "Array2D"]
    /\ UNCHANGED <<a2State, a2Moves>>
    /\ UNCHANGED notArray2D

\* the case of operator=(Array2D &&other) that an assignment takes
MoveCase(this, other) ==
    IF this.allocator = other.allocator THEN "equal allocators"
    ELSE IF this.extent = other.extent THEN "equal extents"
    ELSE "different extents"

\* the elements of the block of an array
ElementsOf(x) == a2Blocks[arrays[x].values].elems

\* a = std::move(b): Array2D::operator=(Array2D &&other), this being a
MoveAssign ==
    /\ a2State = "ready"
    /\ a2Moves < MaxMoves
    /\ Live("a") /\ Live("b")
    /\ LET this == arrays["a"]
           other == arrays["b"]
           n == Area(this.extent)
           no == Area(other.extent)
       IN  /\ a2Last' = [call |-> "operator=", case |-> MoveCase(this, other),
                         extent |-> other.extent, elems |-> ElementsOf("b")]
           /\ CASE MoveCase(this, other) = "equal allocators" ->
                       \* pstd::swap(extent, other.extent);
                       \* pstd::swap(values, other.values)
                       /\ arrays' = [arrays EXCEPT
                                        !["a"] = [this EXCEPT !.extent = other.extent,
                                                              !.values = other.values],
                                        !["b"] = [other EXCEPT !.extent = this.extent,
                                                               !.values = this.values]]
                       /\ UNCHANGED a2Blocks
                [] MoveCase(this, other) = "equal extents" ->
                       \* destroy and construct each element in place
                       /\ arrays' = [arrays EXCEPT !["a"].extent = other.extent]
                       /\ a2Blocks' = [a2Blocks EXCEPT ![this.values].elems =
                                          [i \in 1..n |-> ElementsOf("b")[i]]]
                [] MoveCase(this, other) = "different extents" ->
                       \* deallocate_object(values, n); values =
                       \* allocate_object<T>(no); extent is not assigned
                       /\ arrays' = [arrays EXCEPT !["a"].values = NewBlock]
                       /\ a2Blocks' = [p \in DOMAIN a2Blocks \cup {NewBlock} |->
                                          IF p = NewBlock
                                          THEN [allocator |-> this.allocator,
                                                elems |-> [i \in 1..no |->
                                                              ElementsOf("b")[i]],
                                                deallocatedWith |-> -1]
                                          ELSE IF p = this.values
                                          THEN [a2Blocks[p] EXCEPT
                                                   !.deallocatedWith = n]
                                          ELSE a2Blocks[p]]
    /\ a2Moves' = a2Moves + 1
    /\ UNCHANGED a2State
    /\ UNCHANGED notArray2D

\* how a destructor ends whose extent.Area() is not the number of elements
\* allocated: it destroys or leaves elements outside the block's and
\* deallocates with another count than the block was allocated with
MismatchOutcomes == {"ready", "crashed"}

\* x.~Array2D(): n = extent.Area(); destroy n elements;
\* deallocate_object(values, n)
Array2DDestroy(x) ==
    /\ a2State = "ready"
    /\ Live(x)
    /\ \A y \in ArrayNames : arrays[y].made # "not constructed"
    /\ LET n == Area(arrays[x].extent)
           p == arrays[x].values
       IN  /\ a2Blocks' = [a2Blocks EXCEPT ![p].deallocatedWith = n]
           /\ IF n = Len(a2Blocks[p].elems)
              THEN UNCHANGED a2State
              ELSE a2State' \in MismatchOutcomes
    /\ arrays' = [arrays EXCEPT ![x] = Destroyed]
    /\ a2Last' = [call |-> "~Array2D"]
    /\ UNCHANGED a2Moves
    /\ UNCHANGED notArray2D

NextArray2D ==
    \/ \E x \in ArrayNames, extent \in Extents, def \in Defs, allocator \in Allocators :
          Array2DConstruct(x, extent, def, allocator)
    \/ MoveAssign
    \/ \E x \in ArrayNames : Array2DDestroy(x)

(* C30: after a = std::move(b), in each of the three cases, the extent of  *)
(* a is the extent b had, a.size() is the number of elements of a's block  *)
(* and these are the elements b had; and every block is deallocated with   *)
(* the count it was allocated with, no destructor ending otherwise.        *)
MoveAssignmentTransfers ==
    /\ a2State = "ready"
    /\ a2Last.call = "operator=" =>
          /\ arrays["a"].extent = a2Last.extent
          /\ Area(arrays["a"].extent) = Len(ElementsOf("a"))
          /\ ElementsOf("a") = a2Last.elems
          /\ a2Blocks[arrays["a"].values].deallocatedWith = -1
    /\ \A p \in DOMAIN a2Blocks :
          a2Blocks[p].deallocatedWith \in {-1, Len(a2Blocks[p].elems)}

-----------------------------------------------------------------------------
(* The specifications: each runs one component from the state all are      *)
(* constructed in, the others left alone.                                  *)

Init ==
    /\ InitRNG /\ InitUniform /\ InitCache /\ InitSampler /\ InitGenerator
    /\ InitDistribution /\ InitMaxMin /\ InitJump /\ InitScene /\ InitHashMap
    /\ InitInlinedVector /\ InitArray2D

SpecRNG == Init /\ [][NextRNG]_vars

SpecUniform == Init /\ [][NextUniform]_vars

\* the same in a release or a debug build
InitAnyBuild ==
    /\ InitRNG /\ InitUniform /\ InitCacheBuilds /\ InitSampler /\ InitGenerator
    /\ InitDistribution /\ InitMaxMin /\ InitJump /\ InitScene /\ InitHashMap
    /\ InitInlinedVector /\ InitArray2D

SpecCache == InitAnyBuild /\ [][NextCache]_vars

SpecCacheLifecycle == Init /\ [][NextCacheLifecycle]_vars

SpecSampler == Init /\ [][NextSampler]_vars

SpecSamplerArrays == Init /\ [][NextSamplerArrays]_vars

SpecGenerator == Init /\ [][NextGenerator]_vars

SpecDistribution == Init /\ [][NextDistribution]_vars

SpecMaxMin == Init /\ [][NextMaxMin]_vars

SpecJump == Init /\ [][NextJump]_vars

SpecScene == Init /\ [][NextScene]_vars

SpecHashMapInserts == Init /\ [][NextHashMapInserts]_vars

SpecHashMap == Init /\ [][NextHashMap]_vars

SpecInlinedVector == Init /\ [][NextInlinedVector]_vars

SpecArray2D == Init /\ [][NextArray2D]_vars

=============================================================================
